---- MODULE Spec2Model ----
(***************************************************************************)
(* Query / aggregation core of the incident-response application            *)
(* (utils.py) over the indicators table (models.py); the table is written   *)
(* by the feed loader (etl_pipeline.py) and the seed loader (db_init.py).   *)
(* Search, dashboard, filtered dashboard, geographic and trend reads each    *)
(* have a specification of their own over the same state and the same       *)
(* writers; CoreSpec joins the reads with the export audit, UpdateSpec      *)
(* follows the data-update audit (app.py), and ReloadSpec runs store_data   *)
(* step by step beside a reader. EtlSpec follows store_data to its commit   *)
(* or its failure in both loading modes, and DashboardReloadSpec runs the   *)
(* queries of get_dashboard_stats one by one beside a reload.               *)
(*                                                                          *)
(* Text is modelled as a sequence of one-character strings so that the     *)
(* comparisons the store performs on VARCHAR columns (BINARY collation,     *)
(* LIKE) and the conversions Python performs (strip, lower, int, str) are   *)
(* computed character by character.                                         *)
(***************************************************************************)
EXTENDS Integers, Sequences, FiniteSets, TLC

\* ------------------------------------------------------------------ bounds
\* Most rows a feed batch holds.
MaxRows == 3
\* Highest page number a caller asks for.
MaxPage == 3
\* Number of midnights the clock may pass.
MaxTicks == 1
\* Most rows an audit table (exports, user_queries, data_updates) comes to hold.
MaxAudit == 2

\* ------------------------------------------------------------------ text
\* Printable ASCII in code-point order; Ascii[i] has code point 31 + i. The four
\* quoting characters (34, 39, 92, 96) are written by their hexadecimal code.
Ascii ==
  << " ", "!", "x22", "#", "$", "%", "&", "x27", "(", ")", "*", "+", ",", "-", ".", "/",
     "0", "1", "2", "3", "4", "5", "6", "7", "8", "9", ":", ";", "<", "=", ">", "?",
     "@", "A", "B", "C", "D", "E", "F", "G", "H", "I", "J", "K", "L", "M", "N", "O",
     "P", "Q", "R", "S", "T", "U", "V", "W", "X", "Y", "Z", "[", "x5c", "]", "^", "_",
     "x60", "a", "b", "c", "d", "e", "f", "g", "h", "i", "j", "k", "l", "m", "n", "o",
     "p", "q", "r", "s", "t", "u", "v", "w", "x", "y", "z", "{", "|", "}", "~" >>

\* The code point of every character.
OrdTable ==
  [c \in {Ascii[i] : i \in 1..Len(Ascii)} |->
     31 + (CHOOSE i \in 1..Len(Ascii) : Ascii[i] = c)]

Ord(c) == OrdTable[c]

Digits == <<"0", "1", "2", "3", "4", "5", "6", "7", "8", "9">>

IsDigit(c) == Ord(c) >= 48 /\ Ord(c) <= 57

DigitVal(c) == Ord(c) - 48

\* Python None and SQL NULL: a value no text equals.
None == <<"<None>">>

Min(a, b) == IF a < b THEN a ELSE b

Max(a, b) == IF a > b THEN a ELSE b

\* str.lower(): the letters A to Z moved 32 code points up.
Lower(s) ==
  [i \in 1..Len(s) |->
     IF Ord(s[i]) >= 65 /\ Ord(s[i]) <= 90 THEN Ascii[Ord(s[i]) + 32 - 31] ELSE s[i]]

\* str.strip(): leading and trailing whitespace removed.
Strip(s) ==
  LET keep == {i \in 1..Len(s) : s[i] # " "}
  IN  IF keep = {} THEN <<>>
      ELSE LET lo == CHOOSE i \in keep : \A j \in keep : i <= j
               hi == CHOOSE i \in keep : \A j \in keep : i >= j
           IN  SubSeq(s, lo, hi)

\* Truth value of an optional str: None and the empty str are false.
Truthy(s) == s # None /\ s # <<>>

\* memcmp order of two texts (the store's BINARY collation): a < b.
TextLess(a, b) ==
  \E i \in 1..(Min(Len(a), Len(b)) + 1) :
     /\ \A j \in 1..(i - 1) : a[j] = b[j]
     /\ \/ i > Len(a) /\ i <= Len(b)
        \/ i <= Len(a) /\ i <= Len(b) /\ Ord(a[i]) < Ord(b[i])

\* column >= value and column <= value on a text column: NULL satisfies neither.
SqlGe(col, v) == col # None /\ ~TextLess(col, v)

SqlLe(col, v) == col # None /\ ~TextLess(v, col)

SqlLt(col, v) == col # None /\ TextLess(col, v)

\* LIKE: % matches any run of characters, _ any one character.
RECURSIVE Like(_, _)
Like(p, t) ==
  IF p = <<>> THEN t = <<>>
  ELSE IF Head(p) = "%"
       THEN Like(Tail(p), t) \/ (t # <<>> /\ Like(p, Tail(t)))
       ELSE /\ t # <<>>
            /\ (Head(p) = "_" \/ Head(p) = Head(t))
            /\ Like(Tail(p), Tail(t))

\* column.ilike(f'%{term}%'): lower(column) LIKE lower(pattern); NULL never matches.
ILikeContains(col, term) ==
  col # None /\ Like(Lower(<<"%">> \o term \o <<"%">>), Lower(col))

\* Decimal text of a natural number, as str(n) and the store's integer-to-text cast.
RECURSIVE IntToText(_)
IntToText(n) ==
  IF n < 10 THEN <<Digits[n + 1]>>
  ELSE IntToText(n \div 10) \o <<Digits[(n % 10) + 1]>>

\* ------------------------------------------------------------------ literals
\* Indicator types the loader writes and the dashboards count.
MITRE_Technique == <<"M", "I", "T", "R", "E", " ", "T", "e", "c", "h", "n", "i", "q", "u", "e">>

CVE_Vulnerability == <<"C", "V", "E", " ", "V", "u", "l", "n", "e", "r", "a", "b", "i", "l", "i", "t", "y">>

Malicious_URL == <<"M", "a", "l", "i", "c", "i", "o", "u", "s", " ", "U", "R", "L">>

\* A type no dashboard counts (tests/test_utils.py).
Malware == <<"M", "a", "l", "w", "a", "r", "e">>

\* Source labels: the values of the sources option and the labels the feeds write.
MITRE_ATTCK == <<"M", "I", "T", "R", "E", " ", "A", "T", "T", "&", "C", "K">>

CISA_KEV == <<"C", "I", "S", "A", " ", "K", "E", "V">>

Abuse_ch_URLhaus == <<"A", "b", "u", "s", "e", ".", "c", "h", " ", "U", "R", "L", "h", "a", "u", "s">>

MITRE_ATTCK_GitHub == <<"M", "I", "T", "R", "E", " ", "A", "T", "T", "&", "C", "K", " ", "(", "G", "i", "t", "H", "u", "b", ")">>

CISA_KEV_Catalog == <<"C", "I", "S", "A", " ", "K", "E", "V", " ", "C", "a", "t", "a", "l", "o", "g">>

\* Label of an absent grouping key.
Unknown == <<"U", "n", "k", "n", "o", "w", "n">>

all == <<"a", "l", "l">>

desc == <<"d", "e", "s", "c">>

asc == <<"a", "s", "c">>

\* ------------------------------------------------------------------ clock
\* date.strftime('%Y-%m-%d') in the calendar the clock runs in: day 1 is
\* 2023-12-01, day 32 is 2024-01-01, day 62 is 2024-01-31; %m and %d are
\* two-digit, zero-padded.
Strftime(d) ==
  LET year     == IF d <= 31 THEN 2023 ELSE 2024
      month    == IF d <= 31 THEN 12 ELSE 1
      day      == IF d <= 31 THEN d ELSE d - 31
      Pad2(n)  == IF n < 10 THEN <<"0">> \o IntToText(n) ELSE IntToText(n)
  IN  IntToText(year) \o <<"-">> \o Pad2(month) \o <<"-">> \o Pad2(day)

\* The day datetime.now() falls on when the model starts.
StartDay == 31 + 5

\* ------------------------------------------------------------------ state
VARIABLES
  indicators,   \* the indicators table: its rows in rowid order
  today,        \* the day datetime.now() falls on
  ticks,        \* midnights passed since the start
  res,          \* what a caller holds: its call and the answer, NoCall between requests
  exports,      \* the exports table (Export rows)
  user_queries, \* the user_queries table (UserQuery rows)
  data_updates, \* the data_updates table (DataUpdate rows)
  txn,          \* the open transaction of the ETL's connection: <<>> when none
  etl_proc      \* what the ETL process holds: the return of its last store_data or run_etl

vars == <<indicators, today, ticks, res, exports, user_queries, data_updates, txn, etl_proc>>

\* No request under way.
NoCall == [op |-> "none"]

\* The ETL process has no call behind it, or is in one.
NoRun == [op |-> "none"]

\* A record of the seed file or of a feed, before the store gives it an id.
Record(type, value, name, description, source, severity, date, timestamp) ==
  [indicator_type |-> type, indicator_value |-> value, name |-> name,
   description |-> description, source |-> source, severity_score |-> severity,
   date_added |-> date, timestamp |-> timestamp]

\* INSERT of the records in turn: the store keeps a row per record under the id
\* it assigns, one more than the largest id of the table (INTEGER PRIMARY KEY).
InsertAll(table, records) ==
  LET last == IF table = <<>> THEN 0 ELSE table[Len(table)].id
  IN  table \o
      [i \in 1..Len(records) |->
         [id |-> last + i, indicator_type |-> records[i].indicator_type,
          indicator_value |-> records[i].indicator_value, name |-> records[i].name,
          description |-> records[i].description, source |-> records[i].source,
          severity_score |-> records[i].severity_score,
          date_added |-> records[i].date_added,
          timestamp |-> records[i].timestamp]]

\* All sequences of at most n elements of S.
SeqUpTo(S, n) == UNION {[1..k -> S] : k \in 0..n}

Init ==
  /\ indicators = <<>>
  /\ today = StartDay
  /\ ticks = 0
  /\ res = NoCall
  /\ exports = <<>>
  /\ user_queries = <<>>
  /\ data_updates = <<>>
  /\ txn = <<>>
  /\ etl_proc = NoRun

\* ThreatIntelligenceETL.store_data: clear the table, insert the batch, commit.
store_data(batch) ==
  /\ res = NoCall
  /\ indicators' = InsertAll(<<>>, batch)
  /\ UNCHANGED <<today, ticks, res, exports, user_queries, data_updates, txn, etl_proc>>

\* load_sample_data: append the records of the seed file, commit.
load_sample_data(data) ==
  /\ res = NoCall
  /\ data # <<>>
  /\ Len(indicators) + Len(data) <= MaxRows
  /\ indicators' = InsertAll(indicators, data)
  /\ UNCHANGED <<today, ticks, res, exports, user_queries, data_updates, txn, etl_proc>>

\* The caller is done with the answer it holds.
Return ==
  /\ res # NoCall
  /\ res' = NoCall
  /\ UNCHANGED <<indicators, today, ticks, exports, user_queries, data_updates, txn, etl_proc>>

\* Midnight passes.
Tick ==
  /\ ticks < MaxTicks
  /\ ticks' = ticks + 1
  /\ today' = today + 1
  /\ UNCHANGED <<indicators, res, exports, user_queries, data_updates, txn, etl_proc>>

\* ------------------------------------------------------------------ search
\* The mapped columns of Indicator (models.py).
ColumnNames ==
  {"id", "indicator_type", "indicator_value", "name", "description", "source",
   "severity_score", "date_added", "timestamp"}

\* Attributes of the Indicator class that are not columns: the query property and
\* the declarative attributes of db.Model.
OtherAttributes == {"query", "metadata", "__tablename__", "__table__", "__mapper__"}

\* The filters of advanced_search_indicators as one predicate over a row.
SearchTermFilter(row, search_term) ==
  (Truthy(search_term) /\ Truthy(Strip(search_term))) =>
     \/ ILikeContains(row.name, Strip(search_term))
     \/ ILikeContains(row.description, Strip(search_term))
     \/ ILikeContains(row.indicator_value, Strip(search_term))
     \/ ILikeContains(row.source, Strip(search_term))

TypeFilter(row, indicator_type) ==
  (Truthy(indicator_type) /\ Truthy(Strip(indicator_type)) /\ Lower(indicator_type) # all) =>
     row.indicator_type = Strip(indicator_type)

\* SeverityFilter with the two bounds joined by or_ instead of and_.
SeverityFilter_or(row, severity_min, severity_max) ==
  LET lo == severity_min # None /\ Strip(severity_min) # <<>>
      hi == severity_max # None /\ Strip(severity_max) # <<>>
  IN  IF lo /\ hi
      THEN SqlGe(row.severity_score, severity_min) \/ SqlLe(row.severity_score, severity_max)
      ELSE /\ lo => SqlGe(row.severity_score, severity_min)
           /\ hi => SqlLe(row.severity_score, severity_max)

\* severity_min and severity_max arrive already converted by str().
SeverityFilter(row, severity_min, severity_max) ==
  /\ (severity_min # None /\ Strip(severity_min) # <<>>) =>
        SqlGe(row.severity_score, severity_min)
  /\ (severity_max # None /\ Strip(severity_max) # <<>>) =>
        SqlLe(row.severity_score, severity_max)

DateFilter(row, date_from, date_to) ==
  /\ (Truthy(date_from) /\ Truthy(Strip(date_from))) => SqlGe(row.date_added, Strip(date_from))
  /\ (Truthy(date_to) /\ Truthy(Strip(date_to))) => SqlLe(row.date_added, Strip(date_to))

SourceFilter(row, source) ==
  (Truthy(source) /\ Truthy(Strip(source))) => ILikeContains(row.source, Strip(source))

SearchFilter(row, a) ==
  /\ SearchTermFilter(row, a.search_term)
  /\ TypeFilter(row, a.indicator_type)
  /\ SeverityFilter(row, a.severity_min, a.severity_max)
  /\ DateFilter(row, a.date_from, a.date_to)
  /\ SourceFilter(row, a.source)

\* sort_column = getattr(Indicator, sort_by, Indicator.id): a column, another
\* attribute of the class, or the default.
SortColumn(sort_by) ==
  IF sort_by \in ColumnNames \union OtherAttributes THEN sort_by ELSE "id"

\* The orders of n rows, for every size a table has.
IndexOrders ==
  [n \in 0..MaxRows |-> {p \in [1..n -> 1..n] : \A i, j \in 1..n : p[i] = p[j] => i = j}]

\* Every order the store may return rows in under an ORDER BY whose strict order
\* is prec (the pairs <<earlier, later>>): rows the order does not tell apart come
\* in an order the store chooses per query.
SortedOrders(rows, prec) ==
  {[i \in 1..Len(rows) |-> rows[p[i]]] : p \in
     {q \in IndexOrders[Len(rows)] :
        \A i, j \in 1..Len(rows) : i < j => <<rows[q[j]], rows[q[i]]>> \notin prec}}

\* The rows of a sequence.
Range(rows) == {rows[i] : i \in 1..Len(rows)}

\* ORDER BY col [DESC] over the rows of the table: integers for id, BINARY
\* collation for text, NULL before every value.
Orderings(rows, col, descending) ==
  LET Less(r1, r2) ==
        IF col = "id" THEN r1.id < r2.id
        ELSE \/ r1[col] = None /\ r2[col] # None
             \/ r1[col] # None /\ r2[col] # None /\ TextLess(r1[col], r2[col])
  IN  SortedOrders(rows, {pair \in Range(rows) \X Range(rows) :
                            IF descending THEN Less(pair[2], pair[1])
                            ELSE Less(pair[1], pair[2])})

\* The dictionary made of a row for the JSON answer.
ItemOf(row) ==
  [id |-> row.id, name |-> row.name, type |-> row.indicator_type,
   description |-> row.description, severity_score |-> row.severity_score,
   source |-> row.source, date_added |-> row.date_added,
   indicator_value |-> row.indicator_value]

\* Paginate with the page count rounded down.
Paginate_floor(ordered, total, page, per_page) ==
  LET pg    == IF page < 1 THEN 1 ELSE page
      pp    == IF per_page < 1 THEN 20 ELSE per_page
      first == (pg - 1) * pp + 1
      last  == Min(Len(ordered), pg * pp)
      pages == total \div pp
  IN  [raised      |-> "",
       items       |-> [i \in 1..Max(0, last - first + 1) |-> ItemOf(ordered[first + i - 1])],
       total       |-> total,
       pages       |-> pages,
       current_page |-> page,
       per_page    |-> per_page,
       has_prev    |-> pg > 1,
       has_next    |-> pg < pages,
       prev_num    |-> IF pg > 1 THEN <<pg - 1>> ELSE <<>>,
       next_num    |-> IF pg < pages THEN <<pg + 1>> ELSE <<>>]

\* Query.paginate(page, per_page, error_out=False) over the ordered result, and the
\* answer made of it.
Paginate(ordered, total, page, per_page) ==
  LET pg    == IF page < 1 THEN 1 ELSE page
      pp    == IF per_page < 1 THEN 20 ELSE per_page
      first == (pg - 1) * pp + 1
      last  == Min(Len(ordered), pg * pp)
      pages == IF total = 0 THEN 0 ELSE (total + pp - 1) \div pp
  IN  [raised      |-> "",
       items       |-> [i \in 1..Max(0, last - first + 1) |-> ItemOf(ordered[first + i - 1])],
       total       |-> total,
       pages       |-> pages,
       current_page |-> page,
       per_page    |-> per_page,
       has_prev    |-> pg > 1,
       has_next    |-> pg < pages,
       prev_num    |-> IF pg > 1 THEN <<pg - 1>> ELSE <<>>,
       next_num    |-> IF pg < pages THEN <<pg + 1>> ELSE <<>>]

\* The call ended by raising exc.
Raised(exc) == [raised |-> exc]

\* The rows of the table matching the filters, in rowid order.
Matching(table, a) == SelectSeq(table, LAMBDA row : SearchFilter(row, a))

\* Every answer advanced_search_indicators may give for the arguments a.
advanced_search_indicators(table, a) ==
  IF SortColumn(a.sort_by) \in OtherAttributes
  THEN {Raised("AttributeError")}
  ELSE {Paginate(ordered, Len(Matching(table, a)), a.page, a.per_page) :
          ordered \in Orderings(Matching(table, a), SortColumn(a.sort_by),
                                Lower(a.sort_order) = desc)}

\* ------------------------------------------------------------------ search: inputs
\* Records of the feeds (etl_pipeline.py) and of the seed file, with short free text.
SearchFeedRecords ==
  {Record(MITRE_Technique, <<"T", "1">>, <<"A", "b">>, <<"x">>, MITRE_ATTCK,
          <<"5", ".", "0">>, Strftime(StartDay), <<"t", "1">>),
   Record(CVE_Vulnerability, <<"C", "2">>, <<"b">>, <<"y">>, CISA_KEV_Catalog,
          <<"8", ".", "0">>, Strftime(StartDay - 6), <<"t", "2">>)}

\* The seed file may leave fields out.
SearchSeedRecords ==
  SearchFeedRecords \union
  {Record(Malware, <<"M", "3">>, None, None, None, None, None, <<"t", "3">>)}

Args(search_term, indicator_type, severity_min, severity_max, date_from, date_to, source, page, per_page, sort_by, sort_order) ==
  [search_term |-> search_term, indicator_type |-> indicator_type,
   severity_min |-> severity_min, severity_max |-> severity_max,
   date_from |-> date_from, date_to |-> date_to, source |-> source,
   page |-> page, per_page |-> per_page, sort_by |-> sort_by, sort_order |-> sort_order]

\* The filter options a caller has set.
ActiveFields(a) ==
  {f \in {"search_term", "indicator_type", "severity_min", "severity_max",
          "date_from", "date_to", "source"} : a[f] # None}

\* The calls made: calls that vary the filters (at most two set) under the default
\* sort, two items to a page, calls that vary the sort with no filter set, and
\* calls whose search term is a punctuation character.
SearchCalls ==
  {a \in {Args(st, it, smin, smax, df, dt, src, pg, pp, "id", desc) :
            st \in {None, <<"b">>, <<" ">>},
            it \in {None, MITRE_Technique, <<"A", "L", "L">>},
            smin \in {None, <<"8", ".", "0">>, <<"a", "b", "c">>},
            smax \in {None, <<"8", ".", "0">>},
            df \in {None, Strftime(StartDay - 3)},
            dt \in {None, Strftime(StartDay - 3)},
            src \in {None, <<"k", "e", "v">>},
            pg \in 0..MaxPage, pp \in {2}} :
     Cardinality(ActiveFields(a)) <= 2}
  \union
  {Args(None, None, None, None, None, None, None, pg, pp, sb, so) :
     pg \in 0..MaxPage, pp \in {1, 2},
     sb \in {"severity_score", "name", "relevance", "query", "metadata"},
     so \in {asc, desc, <<"D", "E", "S", "C">>}}
  \union
  {Args(st, None, None, None, None, None, None, 1, 2, "id", desc) :
     st \in {<<"_">>, <<"%">>}}

\* ------------------------------------------------------------------ search: actions
Search ==
  \E a \in SearchCalls :
    /\ res = NoCall
    /\ \E out \in advanced_search_indicators(indicators, a) :
         res' = [op |-> "search", args |-> a, out |-> out]
    /\ UNCHANGED <<indicators, today, ticks, exports, user_queries, data_updates, txn, etl_proc>>

\* A client that reads the whole result page by page: it asks for page 1 ...
FirstPage ==
  \E a \in SearchCalls :
    /\ res = NoCall
    /\ a.page = 1
    /\ \E out \in advanced_search_indicators(indicators, a) :
         /\ out.raised = ""
         /\ res' = [op |-> "pages", args |-> a, out |-> out, items |-> out.items]
    /\ UNCHANGED <<indicators, today, ticks, exports, user_queries, data_updates, txn, etl_proc>>

\* ... and then for each next page up to the page count of the last answer.
NextPage ==
  /\ res.op = "pages"
  /\ res.args.page < res.out.pages
  /\ LET a == [res.args EXCEPT !.page = res.args.page + 1]
     IN  \E out \in advanced_search_indicators(indicators, a) :
           res' = [op |-> "pages", args |-> a, out |-> out, items |-> res.items \o out.items]
  /\ UNCHANGED <<indicators, today, ticks, exports, user_queries, data_updates, txn, etl_proc>>

SearchNext ==
  \/ \E batch \in SeqUpTo(SearchFeedRecords, MaxRows) : store_data(batch)
  \/ \E data \in SeqUpTo(SearchSeedRecords, MaxRows) : load_sample_data(data)
  \/ Search
  \/ FirstPage
  \/ NextPage
  \/ Return

SearchSpec == Init /\ [][SearchNext]_vars

\* ------------------------------------------------------------------ search: properties
\* The answer of a search call that did not raise.
Answered == res.op = "search" /\ res.out.raised = ""

\* The client has read the last page.
AllPagesRead == res.op = "pages" /\ res.args.page >= res.out.pages

\* The dictionaries of a sequence of rows.
ItemsOf(rows) == [i \in 1..Len(rows) |-> ItemOf(rows[i])]

\* The unpaginated sorted results of the arguments a.
Unpaginated(a) ==
  {ItemsOf(ordered) :
     ordered \in Orderings(Matching(indicators, a), SortColumn(a.sort_by),
                           Lower(a.sort_order) = desc)}

\* C1: the pages 1..pages of a search, concatenated, are the unpaginated sorted
\* result: every matching indicator once, in the order of the sort.
C1_PagesReproduceResult == AllPagesRead => res.items \in Unpaginated(res.args)

\* The arguments a with the filter options of S unset.
Without(a, S) == [f \in DOMAIN a |-> IF f \in S THEN None ELSE a[f]]

\* C3: a call never matches more, nor returns more items, than the same call with
\* some of its filter options unset.
C3_FilterMonotone ==
  Answered =>
    \A S \in SUBSET ActiveFields(res.args) :
      \A wider \in advanced_search_indicators(indicators, Without(res.args, S)) :
        /\ res.out.total <= wider.total
        /\ Len(res.out.items) <= Len(wider.items)

\* A call with two filters that matches less than the call with one of them unset.
C3_Witness ==
  /\ Answered
  /\ Cardinality(ActiveFields(res.args)) = 2
  /\ \E f \in ActiveFields(res.args) :
       \E wider \in advanced_search_indicators(indicators, Without(res.args, {f})) :
         /\ res.out.total < wider.total
         /\ Len(res.out.items) < Len(wider.items)
         /\ res.out.total > 0

\* Text that float() reads as a number: digits with at most one point.
IsNumeric(s) ==
  LET t == Strip(s)
  IN  /\ \E i \in 1..Len(t) : IsDigit(t[i])
      /\ \A i \in 1..Len(t) : IsDigit(t[i]) \/ t[i] = "."
      /\ Cardinality({i \in 1..Len(t) : t[i] = "."}) <= 1

\* A severity bound that is set and is no number.
Malformed(bound) == bound # None /\ Strip(bound) # <<>> /\ ~IsNumeric(bound)

\* C5: a search with a malformed severity_min or severity_max does not raise and
\* answers as the same call with that option unset.
C5_MalformedBoundIgnored ==
  res.op = "search" =>
    /\ Malformed(res.args.severity_min) =>
         res.out \in advanced_search_indicators(indicators, Without(res.args, {"severity_min"}))
    /\ Malformed(res.args.severity_max) =>
         res.out \in advanced_search_indicators(indicators, Without(res.args, {"severity_max"}))

\* C6: a search sorted by a name that is no stored field does not raise and answers
\* as the same call sorted by id.
C6_UnknownSortFallsBack ==
  (res.op = "search" /\ res.args.sort_by \notin ColumnNames) =>
    /\ res.out.raised = ""
    /\ res.out \in advanced_search_indicators(indicators, [res.args EXCEPT !.sort_by = "id"])

\* The number of rows of the table the filters of a hold for.
MatchCount(a) ==
  Cardinality({i \in 1..Len(indicators) : SearchFilter(indicators[i], a)})

\* C10: for per_page >= 1 and 1 <= page <= max(pages, 1), total counts all matching
\* rows, pages is the ceiling of total / per_page, the page holds
\* min(per_page, total - (page - 1) * per_page) items, has_prev is page > 1 and
\* has_next is page < pages.
C10_PageArithmetic ==
  (/\ Answered
   /\ res.args.per_page >= 1
   /\ res.args.page >= 1
   /\ res.args.page <= Max(res.out.pages, 1)) =>
    LET o  == res.out
        pp == res.args.per_page
        pg == res.args.page
    IN  /\ o.total = MatchCount(res.args)
        /\ o.pages * pp >= o.total
        /\ (o.pages - 1) * pp < o.total \/ (o.total = 0 /\ o.pages = 0 /\ o.items = <<>>)
        /\ Len(o.items) = Min(pp, o.total - (pg - 1) * pp)
        /\ o.has_prev = (pg > 1)
        /\ o.has_next = (pg < o.pages)

\* Scenario D: the second and last page of three matching rows, two to a page.
C10_Witness ==
  /\ Answered
  /\ res.args.per_page = 2
  /\ res.args.page = 2
  /\ res.out.total = 3
  /\ res.out.pages = 2
  /\ Len(res.out.items) = 1
  /\ res.out.has_prev
  /\ ~res.out.has_next

\* ------------------------------------------------------------------ aggregation
\* The rows of a sequence as a bag: a result whose row order is the store's choice
\* (GROUP BY without ORDER BY).
BagOf(rows) ==
  [x \in Range(rows) |->
     Cardinality({i \in 1..Len(rows) : rows[i] = x})]

\* The sum of the counts of a bag of [label, count] rows.
RECURSIVE SumCounts(_)
SumCounts(bag) ==
  IF DOMAIN bag = {} THEN 0
  ELSE LET x == CHOOSE y \in DOMAIN bag : TRUE
       IN  x.count * bag[x] + SumCounts([y \in DOMAIN bag \ {x} |-> bag[y]])

\* The grouping with count(key) in place of count(id): NULL keys are not counted.
GroupCount_nonnull(keys) ==
  LET n      == Len(keys)
      firsts == SelectSeq([i \in 1..n |-> i],
                          LAMBDA i : \A j \in 1..(i - 1) : keys[j] # keys[i])
  IN  [g \in 1..Len(firsts) |->
         [key   |-> keys[firsts[g]],
          label |-> IF Truthy(keys[firsts[g]]) THEN keys[firsts[g]] ELSE Unknown,
          count |-> IF keys[firsts[g]] = None THEN 0
                    ELSE Cardinality({j \in 1..n : keys[j] = keys[firsts[g]]})]]

\* SELECT key, count(id) ... GROUP BY key over the keys of the selected rows: one
\* [key, label, count] row per distinct key (NULL is a key), here in the order of
\* first occurrence; the label is str(key) if key else 'Unknown'.
GroupCount(keys) ==
  LET n      == Len(keys)
      firsts == SelectSeq([i \in 1..n |-> i],
                          LAMBDA i : \A j \in 1..(i - 1) : keys[j] # keys[i])
  IN  [g \in 1..Len(firsts) |->
         [key   |-> keys[firsts[g]],
          label |-> IF Truthy(keys[firsts[g]]) THEN keys[firsts[g]] ELSE Unknown,
          count |-> Cardinality({j \in 1..n : keys[j] = keys[firsts[g]]})]]

\* The values of a column of the rows.
Column(rows, col) == [i \in 1..Len(rows) |-> rows[i][col]]

\* The [label, count] lists made of the grouped rows.
Pairs(groups) == [i \in 1..Len(groups) |-> [label |-> groups[i].label, count |-> groups[i].count]]

\* func.date(date_added) of the rows: the date of a text starting YYYY-MM-DD (alone
\* or followed by a time), NULL for NULL and for any other text.
Dates(rows) ==
  LET SqlDate(s) ==
        IF /\ s # None
           /\ Len(s) >= 10
           /\ \A i \in {1, 2, 3, 4, 6, 7, 9, 10} : IsDigit(s[i])
           /\ s[5] = "-" /\ s[8] = "-"
           /\ (Len(s) = 10 \/ s[11] \in {" ", "T"})
        THEN SubSeq(s, 1, 10)
        ELSE None
  IN  [i \in 1..Len(rows) |-> SqlDate(rows[i].date_added)]

\* The rows of a type.
OfType(rows, type) == SelectSeq(rows, LAMBDA row : row.indicator_type = type)

\* The window with the cutoff day itself left out.
Since_after(rows, now, days) ==
  SelectSeq(rows, LAMBDA row : SqlGe(row.date_added, Strftime(now - days + 1)))

\* Indicator.date_added >= cutoff_date.strftime('%Y-%m-%d'), days before now.
Since(rows, now, days) ==
  SelectSeq(rows, LAMBDA row : SqlGe(row.date_added, Strftime(now - days)))

get_severity_distribution(rows) ==
  BagOf(Pairs(GroupCount(Column(rows, "severity_score"))))

get_source_distribution(rows) ==
  BagOf(Pairs(GroupCount(Column(rows, "source"))))

\* ORDER BY the group key, NULL first.
ByKey(groups) ==
  {pair \in Range(groups) \X Range(groups) :
     \/ pair[1].key = None /\ pair[2].key # None
     \/ /\ pair[1].key # None /\ pair[2].key # None
        /\ TextLess(pair[1].key, pair[2].key)}

\* ORDER BY count DESC.
ByCountDesc(groups) ==
  {pair \in Range(groups) \X Range(groups) : pair[1].count > pair[2].count}

\* The per-day counts of the rows, ORDER BY the day: every list the store may return.
TrendOf(rows) ==
  {Pairs(ordered) :
     ordered \in SortedOrders(GroupCount(Dates(rows)), ByKey(GroupCount(Dates(rows))))}

\* The per-day counts with the ORDER BY left out.
get_recent_indicators_unordered(rows, now, days) ==
  {Pairs(ordered) :
     ordered \in SortedOrders(GroupCount(Dates(Since(rows, now, days))), {})}

get_recent_indicators(rows, now, days) == TrendOf(Since(rows, now, days))

\* The names of the MITRE rows by falling count, cut at limit: every list the store
\* may return.
TopOf(rows, limit) ==
  {SubSeq(Pairs(ordered), 1, Min(limit, Len(ordered))) :
     ordered \in SortedOrders(GroupCount(Column(rows, "name")),
                              ByCountDesc(GroupCount(Column(rows, "name"))))}

get_top_techniques(rows, limit) == TopOf(OfType(rows, MITRE_Technique), limit)

\* The counts with the total taken as the sum of the three feeds' counts.
CountsOf_sum(rows) ==
  [total_indicators |-> Len(OfType(rows, MITRE_Technique))
                          + Len(OfType(rows, CVE_Vulnerability))
                          + Len(OfType(rows, Malicious_URL)),
   mitre_count      |-> Len(OfType(rows, MITRE_Technique)),
   cve_count        |-> Len(OfType(rows, CVE_Vulnerability)),
   urlhaus_count    |-> Len(OfType(rows, Malicious_URL))]

\* The counts every dashboard answer holds.
CountsOf(rows) ==
  [total_indicators |-> Len(rows),
   mitre_count      |-> Len(OfType(rows, MITRE_Technique)),
   cve_count        |-> Len(OfType(rows, CVE_Vulnerability)),
   urlhaus_count    |-> Len(OfType(rows, Malicious_URL))]

\* Every answer get_dashboard_stats may give on the day now.
get_dashboard_stats(table, now) ==
  {[raised                |-> "",
    total_indicators      |-> CountsOf(table).total_indicators,
    mitre_count           |-> CountsOf(table).mitre_count,
    cve_count             |-> CountsOf(table).cve_count,
    urlhaus_count         |-> CountsOf(table).urlhaus_count,
    recent_count          |-> Len(Since(table, now, 7)),
    severity_distribution |-> get_severity_distribution(table),
    source_distribution   |-> get_source_distribution(table),
    recent_trend          |-> trend,
    top_techniques        |-> top,
    source_breakdown      |-> [mitre   |-> CountsOf(table).mitre_count,
                               cisa    |-> CountsOf(table).cve_count,
                               urlhaus |-> CountsOf(table).urlhaus_count]] :
     trend \in get_recent_indicators(table, now, 7),
     top \in get_top_techniques(table, 5)}

\* ------------------------------------------------------------ dashboard reads
\* Records the feeds and the seed file can put in the store: two techniques, a
\* vulnerability dated on the edge of the seven-day window, a URL, and a seed
\* record of another type with fields left out.
StatsRecords ==
  {Record(MITRE_Technique, <<"T", "1">>, <<"a">>, None, MITRE_ATTCK_GitHub,
          <<"5", ".", "0">>, Strftime(StartDay), None),
   Record(MITRE_Technique, <<"T", "2">>, <<"b">>, None, MITRE_ATTCK_GitHub,
          <<"5", ".", "0">>, Strftime(StartDay - 9), None),
   Record(CVE_Vulnerability, <<"C", "1">>, <<"c">>, None, CISA_KEV_Catalog,
          <<"8", ".", "0">>, Strftime(StartDay - 7), None),
   Record(Malicious_URL, <<"u">>, <<"u">>, None, Abuse_ch_URLhaus,
          <<"8", ".", "0">>, Strftime(StartDay - 9), None),
   Record(Malware, <<"m">>, None, None, None, None, None, None)}

\* A call of get_dashboard_stats; the answer of the call before it is kept when no
\* write came between the two.
DashboardStats ==
  /\ res = NoCall \/ res.op = "stats"
  /\ \E out \in get_dashboard_stats(indicators, today) :
       res' = [op      |-> "stats",
               prev    |-> IF res = NoCall THEN <<>> ELSE <<res.cur>>,
               prevDay |-> IF res = NoCall THEN today ELSE res.day,
               cur     |-> out,
               day     |-> today]
  /\ UNCHANGED <<indicators, today, ticks, exports, user_queries, data_updates, txn, etl_proc>>

StatsNext ==
  \/ \E batch \in SeqUpTo(StatsRecords, MaxRows) : store_data(batch)
  \/ \E data \in SeqUpTo(StatsRecords, 1) : load_sample_data(data)
  \/ Tick
  \/ DashboardStats
  \/ Return

StatsSpec == Init /\ [][StatsNext]_vars

\* Two calls of get_dashboard_stats have answered with no write between them.
ReadTwice == res.op = "stats" /\ res.prev # <<>>

NoTopTies ==
  \A i, j \in 1..Len(res.cur.top_techniques) :
     i # j => res.cur.top_techniques[i].count # res.cur.top_techniques[j].count

high == <<"h", "i", "g", "h">>
medium == <<"m", "e", "d", "i", "u", "m">>
low == <<"l", "o", "w">>

\* A time_range argument: an int, a str or None.
PyInt(n) == [kind |-> "int", n |-> n, s |-> <<>>]
PyStr(s) == [kind |-> "str", n |-> 0, s |-> s]
PyNone == [kind |-> "none", n |-> 0, s |-> <<>>]

\* The value of a text of digits.
RECURSIVE DigitsVal(_)
DigitsVal(t) ==
  IF t = <<>> THEN 0
  ELSE 10 * DigitsVal(SubSeq(t, 1, Len(t) - 1)) + DigitVal(t[Len(t)])

\* int(v): <<n>>, or <<>> when it raises ValueError (a text that is no whole
\* number) or TypeError (None).
int(v) ==
  IF v.kind = "int" THEN <<v.n>>
  ELSE IF v.kind = "none" THEN <<>>
  ELSE LET t      == Strip(v.s)
           signed == t # <<>> /\ t[1] \in {"+", "-"}
           d      == IF signed THEN SubSeq(t, 2, Len(t)) ELSE t
       IN  IF d # <<>> /\ \A i \in 1..Len(d) : IsDigit(d[i])
           THEN <<IF signed /\ t[1] = "-" THEN 0 - DigitsVal(d) ELSE DigitsVal(d)>>
           ELSE <<>>

\* The severity band conditions: the column is text, so the store compares it
\* with the text of the bound number.
SeverityBand(rows, severity_filter) ==
  IF severity_filter = high
  THEN SelectSeq(rows, LAMBDA row : SqlGe(row.severity_score, IntToText(8)))
  ELSE IF severity_filter = medium
  THEN SelectSeq(rows, LAMBDA row : /\ SqlGe(row.severity_score, IntToText(4))
                                   /\ SqlLt(row.severity_score, IntToText(8)))
  ELSE IF severity_filter = low
  THEN SelectSeq(rows, LAMBDA row : SqlLt(row.severity_score, IntToText(4)))
  ELSE rows

\* The source conditions: the types of the listed sources, no condition when
\* none of the three sources is listed. sources is <<>> for None, <<list>> else.
BySources(rows, sources) ==
  LET listed == IF sources = <<>> THEN {MITRE_ATTCK, CISA_KEV, Abuse_ch_URLhaus}
                ELSE sources[1]
      types  == {t \in {MITRE_Technique, CVE_Vulnerability, Malicious_URL} :
                   \/ t = MITRE_Technique /\ MITRE_ATTCK \in listed
                   \/ t = CVE_Vulnerability /\ CISA_KEV \in listed
                   \/ t = Malicious_URL /\ Abuse_ch_URLhaus \in listed}
  IN  IF types = {} THEN rows
      ELSE SelectSeq(rows, LAMBDA row : row.indicator_type \in types)

\* The time condition under try/except: skipped when int(days) raises.
TimeTried(rows, now, days) ==
  IF days = PyStr(all) \/ int(days) = <<>> THEN rows
  ELSE Since(rows, now, int(days)[1])

\* timedelta(days=days) without conversion: TypeError unless days is a number.
TimeRaises(days) == days # PyStr(all) /\ days.kind # "int"

\* The time condition of the helpers that convert nothing.
TimeUntried(rows, now, days) ==
  IF days = PyStr(all) THEN rows ELSE Since(rows, now, days.n)

get_filtered_recent_indicators(table, now, days, severity_filter, sources) ==
  TrendOf(BySources(SeverityBand(TimeTried(table, now, days), severity_filter), sources))

\* The severity filter is no part of this query.
get_filtered_severity_distribution(table, now, days, severity_filter, sources) ==
  IF TimeRaises(days) THEN Raised("TypeError")
  ELSE [raised |-> "",
        rows   |-> BagOf(Pairs(GroupCount(Column(
                     BySources(TimeUntried(table, now, days), sources),
                     "severity_score"))))]

get_filtered_source_distribution(table, now, days, severity_filter, sources) ==
  IF TimeRaises(days) THEN Raised("TypeError")
  ELSE [raised |-> "",
        rows   |-> BagOf(Pairs(GroupCount(Column(
                     BySources(SeverityBand(TimeUntried(table, now, days),
                                            severity_filter), sources),
                     "source"))))]

get_filtered_top_techniques(table, now, days, severity_filter, sources, limit) ==
  IF TimeRaises(days) THEN {Raised("TypeError")}
  ELSE {[raised |-> "", rows |-> top] :
          top \in TopOf(OfType(BySources(SeverityBand(TimeUntried(table, now, days),
                                                      severity_filter), sources),
                               MITRE_Technique), limit)}

\* Every outcome of get_filtered_dashboard_stats on the day now: an answer, or
\* the exception of the first helper that raises.
get_filtered_dashboard_stats(table, now, time_range, severity_filter, sources) ==
  LET query    == BySources(SeverityBand(TimeTried(table, now, time_range),
                                          severity_filter), sources)
      severity == get_filtered_severity_distribution(table, now, time_range,
                                                     severity_filter, sources)
      source   == get_filtered_source_distribution(table, now, time_range,
                                                   severity_filter, sources)
  IN  IF severity.raised # "" THEN {severity}
      ELSE
      {IF top.raised # "" THEN top
       ELSE IF source.raised # "" THEN source
       ELSE
       [raised                |-> "",
        total_indicators      |-> CountsOf(query).total_indicators,
        mitre_count           |-> CountsOf(query).mitre_count,
        cve_count             |-> CountsOf(query).cve_count,
        urlhaus_count         |-> CountsOf(query).urlhaus_count,
        recent_count          |-> CountsOf(query).total_indicators,
        severity_distribution |-> severity.rows,
        source_distribution   |-> source.rows,
        recent_trend          |-> trend,
        top_techniques        |-> top.rows,
        source_breakdown      |-> [mitre   |-> CountsOf(query).mitre_count,
                                   cisa    |-> CountsOf(query).cve_count,
                                   urlhaus |-> CountsOf(query).urlhaus_count]] :
       trend \in get_filtered_recent_indicators(table, now, time_range,
                                                severity_filter, sources),
       top \in get_filtered_top_techniques(table, now, time_range,
                                           severity_filter, sources, 5)}

\* sub in s
Contains(sub, s) ==
  \E i \in 0..(Len(s) - Len(sub)) : SubSeq(s, i + 1, i + Len(sub)) = sub

\* calculate_urlhaus_severity, in tenths.
calculate_urlhaus_severity(url_status, tags) ==
  Min(70 + (IF Lower(url_status) = <<"o", "n", "l", "i", "n", "e">> THEN 10 ELSE 0)
         + (IF Contains(<<"m", "a", "l", "w", "a", "r", "e">>, Lower(tags)) THEN 10 ELSE 0)
         + (IF Contains(<<"p", "h", "i", "s", "h", "i", "n", "g">>, Lower(tags)) THEN 5 ELSE 0)
         + (IF Contains(<<"r", "a", "n", "s", "o", "m", "w", "a", "r", "e">>, Lower(tags))
            THEN 15 ELSE 0),
      100)

\* str(severity) of a float with one decimal, given in tenths.
FloatStr(tenths) == IntToText(tenths \div 10) \o <<".">> \o IntToText(tenths % 10)

\* Records of the three feeds and a seed record: a technique, a vulnerability dated
\* outside a seven-day window, an online URL tagged as ransomware and malware,
\* and a seed record of another type with a low severity.
FilteredRecords ==
  {Record(MITRE_Technique, <<"T", "1">>, <<"a">>, None, MITRE_ATTCK_GitHub,
          <<"5", ".", "0">>, Strftime(StartDay), None),
   Record(CVE_Vulnerability, <<"C", "1">>, <<"c">>, None, CISA_KEV_Catalog,
          <<"8", ".", "0">>, Strftime(StartDay - 9), None),
   Record(Malicious_URL, <<"u">>, <<"d">>, None, Abuse_ch_URLhaus,
          FloatStr(calculate_urlhaus_severity(
            <<"o", "n", "l", "i", "n", "e">>,
            <<"r", "a", "n", "s", "o", "m", "w", "a", "r", "e", ",",
              "m", "a", "l", "w", "a", "r", "e">>)),
          Strftime(StartDay), None),
   Record(Malware, <<"m">>, None, None, None, <<"3", ".", "5">>, None, None)}

\* A call of get_filtered_dashboard_stats with arguments of every kind.
FilteredStats ==
  /\ res = NoCall
  /\ \E time_range \in {PyStr(all), PyInt(7), PyInt(0), PyStr(<<"7">>),
                        PyStr(<<"a", "b", "c">>), PyNone},
        severity_filter \in {all, high, medium, low, <<"t", "o", "p">>},
        sources \in {<<>>, <<{}>>, <<{MITRE_ATTCK}>>,
                     <<{CISA_KEV, Abuse_ch_URLhaus}>>} :
       \E out \in get_filtered_dashboard_stats(indicators, today, time_range,
                                               severity_filter, sources) :
         res' = [op              |-> "filtered",
                 time_range      |-> time_range,
                 severity_filter |-> severity_filter,
                 sources         |-> sources,
                 out             |-> out]
  /\ UNCHANGED <<indicators, today, ticks, exports, user_queries, data_updates, txn, etl_proc>>

FilteredNext ==
  \/ \E batch \in SeqUpTo(FilteredRecords, MaxRows) : store_data(batch)
  \/ \E data \in SeqUpTo(FilteredRecords, 1) : load_sample_data(data)
  \/ FilteredStats
  \/ Return

FilteredSpec == Init /\ [][FilteredNext]_vars

\* get_filtered_dashboard_stats has returned an answer.
FilteredAnswer == res.op = "filtered" /\ res.out.raised = ""

\* C2: in every answer of get_filtered_dashboard_stats the counts of
\* severity_distribution and the counts of source_distribution both sum to
\* total_indicators.
C2_DistributionTotals ==
  FilteredAnswer =>
    /\ SumCounts(res.out.severity_distribution) = res.out.total_indicators
    /\ SumCounts(res.out.source_distribution) = res.out.total_indicators

\* C7: get_filtered_dashboard_stats with a time_range that is neither 'all' nor an
\* integer does not raise, and its answer is the answer with no time filter or
\* the answer with the filter of the number the text stands for.
C7_MalformedTimeRangeAnswers ==
  (/\ res.op = "filtered"
   /\ res.time_range # PyStr(all)
   /\ res.time_range.kind # "int") =>
    /\ res.out.raised = ""
    /\ \/ res.out \in get_filtered_dashboard_stats(indicators, today, PyStr(all),
                                                   res.severity_filter, res.sources)
       \/ /\ int(res.time_range) # <<>>
          /\ res.out \in get_filtered_dashboard_stats(
                           indicators, today, PyInt(int(res.time_range)[1]),
                           res.severity_filter, res.sources)

\* The number a severity text stands for, in tenths.
SeverityTenths(t) ==
  IF \E i \in 1..Len(t) : t[i] = "."
  THEN LET dot == CHOOSE i \in 1..Len(t) : t[i] = "."
       IN  10 * DigitsVal(SubSeq(t, 1, dot - 1))
           + (IF dot < Len(t) THEN DigitVal(t[dot + 1]) ELSE 0)
  ELSE 10 * DigitsVal(t)

\* The band a severity between 0 and 10 belongs to by its number.
BandOf(t) ==
  IF SeverityTenths(t) >= 80 THEN high
  ELSE IF SeverityTenths(t) >= 40 THEN medium
  ELSE low

\* C8: with every stored severity a number between 0 and 10, the severity_filter
\* 'high', 'medium' or 'low' of get_filtered_dashboard_stats selects exactly the
\* indicators whose severity lies in the band by numeric value (here with no time
\* filter, so that total_indicators counts the selected rows of the listed sources).
C8_BandsByNumber ==
  (/\ FilteredAnswer
   /\ res.time_range = PyStr(all)
   /\ res.severity_filter \in {high, medium, low}
   /\ \A i \in 1..Len(indicators) :
        /\ indicators[i].severity_score # None
        /\ IsNumeric(indicators[i].severity_score)
        /\ SeverityTenths(indicators[i].severity_score) <= 100) =>
    res.out.total_indicators =
      Len(BySources(SelectSeq(indicators,
                              LAMBDA row : BandOf(row.severity_score) = res.severity_filter),
                    res.sources))

\* ------------------------------------------------------------ geographic reads
\* country_mapping in the order of the dictionary: the code as text, the country
\* as the key of the answer.
country_mapping ==
  <<<<<<"u", "s">>, "United States">>,
     <<<<"u", "k">>, "United Kingdom">>,
     <<<<"d", "e">>, "Germany">>,
     <<<<"f", "r">>, "France">>,
     <<<<"c", "a">>, "Canada">>,
     <<<<"a", "u">>, "Australia">>,
     <<<<"j", "p">>, "Japan">>,
     <<<<"c", "n">>, "China">>,
     <<<<"r", "u">>, "Russia">>,
     <<<<"b", "r">>, "Brazil">>,
     <<<<"i", "n">>, "India">>,
     <<<<"k", "r">>, "South Korea">>,
     <<<<"n", "l">>, "Netherlands">>,
     <<<<"s", "e">>, "Sweden">>,
     <<<<"n", "o">>, "Norway">>,
     <<<<"d", "k">>, "Denmark">>,
     <<<<"f", "i">>, "Finland">>,
     <<<<"c", "h">>, "Switzerland">>,
     <<<<"a", "t">>, "Austria">>,
     <<<<"i", "t">>, "Italy">>,
     <<<<"e", "s">>, "Spain">>,
     <<<<"p", "l">>, "Poland">>,
     <<<<"c", "z">>, "Czech Republic">>,
     <<<<"h", "u">>, "Hungary">>,
     <<<<"r", "o">>, "Romania">>,
     <<<<"b", "g">>, "Bulgaria">>,
     <<<<"h", "r">>, "Croatia">>,
     <<<<"s", "i">>, "Slovenia">>,
     <<<<"s", "k">>, "Slovakia">>,
     <<<<"e", "e">>, "Estonia">>,
     <<<<"l", "v">>, "Latvia">>,
     <<<<"l", "t">>, "Lithuania">>,
     <<<<"p", "t">>, "Portugal">>,
     <<<<"g", "r">>, "Greece">>,
     <<<<"i", "e">>, "Ireland">>,
     <<<<"b", "e">>, "Belgium">>,
     <<<<"l", "u">>, "Luxembourg">>,
     <<<<"m", "t">>, "Malta">>,
     <<<<"c", "y">>, "Cyprus">>>>

\* The country of the last code of country_mapping found in the value.
CountryOf_last(value) ==
  LET url     == Lower(value)
      Hit(k)  == \/ Contains(<<".">> \o country_mapping[k][1], url)
                 \/ Contains(<<"/">> \o country_mapping[k][1] \o <<"/">>, url)
      hits    == IF Truthy(value) THEN {k \in 1..Len(country_mapping) : Hit(k)} ELSE {}
  IN  IF hits = {} THEN <<>>
      ELSE <<country_mapping[CHOOSE k \in hits : \A h \in hits : k >= h][2]>>

\* The country of the first code of country_mapping that the lower-cased value
\* holds as '.code' or '/code/': <<country>>, or <<>> when there is none or the
\* value is absent or empty.
CountryOf(value) ==
  LET url     == Lower(value)
      Hit(k)  == \/ Contains(<<".">> \o country_mapping[k][1], url)
                 \/ Contains(<<"/">> \o country_mapping[k][1] \o <<"/">>, url)
      hits    == IF Truthy(value) THEN {k \in 1..Len(country_mapping) : Hit(k)} ELSE {}
  IN  IF hits = {} THEN <<>>
      ELSE <<country_mapping[CHOOSE k \in hits : \A h \in hits : k <= h][2]>>

\* simulated_countries in the order of the dictionary, each with the divisor of
\* its share of the counts.
simulated_countries ==
  <<<<"United States", 2>>,
     <<"China", 4>>,
     <<"Russia", 6>>,
     <<"North Korea", 8>>,
     <<"Iran", 10>>,
     <<"United Kingdom", 12>>,
     <<"Germany", 15>>,
     <<"France", 15>>,
     <<"Canada", 20>>,
     <<"Australia", 20>>>>

\* The answers with the merge leaving the total of a country found in the URLs as
\* it was, its simulated shares not added.
get_geographic_analysis_nototal(table, now, time_range, severity_filter, sources) ==
  LET query       == BySources(SeverityBand(TimeTried(table, now, time_range),
                                            severity_filter), sources)
      mitre_count == Len(OfType(query, MITRE_Technique))
      cve_count   == Len(OfType(query, CVE_Vulnerability))
      \* the countries found in the URL rows, in the order of the rows
      Found(urlhaus_indicators) ==
        SelectSeq([i \in 1..Len(urlhaus_indicators) |->
                     CountryOf(urlhaus_indicators[i].indicator_value)],
                  LAMBDA c : c # <<>>)
      \* geographic_data after the merge, in the order of the dictionary: the
      \* countries found, then the simulated countries not among them
      Merged(found, mitre, cve) ==
        LET firsts == SelectSeq([i \in 1..Len(found) |-> i],
                                LAMBDA i : \A j \in 1..(i - 1) : found[j] # found[i])
            added  == SelectSeq([k \in 1..Len(simulated_countries) |-> k],
                                LAMBDA k : \A i \in 1..Len(found) :
                                              found[i] # <<simulated_countries[k][1]>>)
            Urls(c) == Cardinality({i \in 1..Len(found) : found[i] = <<c>>})
            Share(c, count) ==
              LET sim == {k \in 1..Len(simulated_countries) :
                            simulated_countries[k][1] = c}
              IN  IF sim = {} THEN 0
                  ELSE Max(1, count \div simulated_countries[CHOOSE k \in sim : TRUE][2])
            Entry(c) ==
              [country             |-> c,
               malicious_urls      |-> Urls(c),
               cve_vulnerabilities |-> Share(c, cve),
               mitre_techniques    |-> Share(c, mitre),
               total               |-> IF Urls(c) > 0 THEN Urls(c)
                                       ELSE Share(c, cve) + Share(c, mitre)]
        IN  [g \in 1..Len(firsts) |-> Entry(found[firsts[g]][1])]
            \o [g \in 1..Len(added) |-> Entry(simulated_countries[added[g]][1])]
      \* sorted(..., key=total, reverse=True): stable, equal totals keep the
      \* order of the dictionary
      Sorted(data) ==
        LET Place(i) == 1 + Cardinality({j \in 1..Len(data) :
                              \/ data[j].total > data[i].total
                              \/ data[j].total = data[i].total /\ j < i})
        IN  [p \in 1..Len(data) |-> data[CHOOSE i \in 1..Len(data) : Place(i) = p]]
      Lists(sorted) ==
        [countries           |-> [p \in 1..Len(sorted) |-> sorted[p].country],
         malicious_urls      |-> [p \in 1..Len(sorted) |-> sorted[p].malicious_urls],
         cve_vulnerabilities |-> [p \in 1..Len(sorted) |-> sorted[p].cve_vulnerabilities],
         mitre_techniques    |-> [p \in 1..Len(sorted) |-> sorted[p].mitre_techniques],
         totals              |-> [p \in 1..Len(sorted) |-> sorted[p].total]]
  IN  {Lists(sorted) :
         sorted \in {Sorted(data) :
           data \in {Merged(found, mitre, cve) :
             found \in {Found(urls) :
                          urls \in SortedOrders(OfType(query, Malicious_URL), {})},
             mitre \in {mitre_count}, cve \in {cve_count}}}}

\* Every answer get_geographic_analysis may give on the day now: one for each order
\* the store may return the URL rows in. The steps of the handler follow each
\* other as sets of intermediate values.
get_geographic_analysis(table, now, time_range, severity_filter, sources) ==
  LET query       == BySources(SeverityBand(TimeTried(table, now, time_range),
                                            severity_filter), sources)
      mitre_count == Len(OfType(query, MITRE_Technique))
      cve_count   == Len(OfType(query, CVE_Vulnerability))
      \* the countries found in the URL rows, in the order of the rows
      Found(urlhaus_indicators) ==
        SelectSeq([i \in 1..Len(urlhaus_indicators) |->
                     CountryOf(urlhaus_indicators[i].indicator_value)],
                  LAMBDA c : c # <<>>)
      \* geographic_data after the merge, in the order of the dictionary: the
      \* countries found, then the simulated countries not among them
      Merged(found, mitre, cve) ==
        LET firsts == SelectSeq([i \in 1..Len(found) |-> i],
                                LAMBDA i : \A j \in 1..(i - 1) : found[j] # found[i])
            added  == SelectSeq([k \in 1..Len(simulated_countries) |-> k],
                                LAMBDA k : \A i \in 1..Len(found) :
                                              found[i] # <<simulated_countries[k][1]>>)
            Urls(c) == Cardinality({i \in 1..Len(found) : found[i] = <<c>>})
            Share(c, count) ==
              LET sim == {k \in 1..Len(simulated_countries) :
                            simulated_countries[k][1] = c}
              IN  IF sim = {} THEN 0
                  ELSE Max(1, count \div simulated_countries[CHOOSE k \in sim : TRUE][2])
            Entry(c) ==
              [country             |-> c,
               malicious_urls      |-> Urls(c),
               cve_vulnerabilities |-> Share(c, cve),
               mitre_techniques    |-> Share(c, mitre),
               total               |-> Urls(c) + Share(c, cve) + Share(c, mitre)]
        IN  [g \in 1..Len(firsts) |-> Entry(found[firsts[g]][1])]
            \o [g \in 1..Len(added) |-> Entry(simulated_countries[added[g]][1])]
      \* sorted(..., key=total, reverse=True): stable, equal totals keep the
      \* order of the dictionary
      Sorted(data) ==
        LET Place(i) == 1 + Cardinality({j \in 1..Len(data) :
                              \/ data[j].total > data[i].total
                              \/ data[j].total = data[i].total /\ j < i})
        IN  [p \in 1..Len(data) |-> data[CHOOSE i \in 1..Len(data) : Place(i) = p]]
      Lists(sorted) ==
        [countries           |-> [p \in 1..Len(sorted) |-> sorted[p].country],
         malicious_urls      |-> [p \in 1..Len(sorted) |-> sorted[p].malicious_urls],
         cve_vulnerabilities |-> [p \in 1..Len(sorted) |-> sorted[p].cve_vulnerabilities],
         mitre_techniques    |-> [p \in 1..Len(sorted) |-> sorted[p].mitre_techniques],
         totals              |-> [p \in 1..Len(sorted) |-> sorted[p].total]]
  IN  {Lists(sorted) :
         sorted \in {Sorted(data) :
           data \in {Merged(found, mitre, cve) :
             found \in {Found(urls) :
                          urls \in SortedOrders(OfType(query, Malicious_URL), {})},
             mitre \in {mitre_count}, cve \in {cve_count}}}}

\* Records of the feeds and the seed file: a technique, a vulnerability, a URL
\* under a Russian domain, a URL with two codes, and a URL with no value.
GeoRecords ==
  {Record(MITRE_Technique, <<"T", "1">>, <<"a">>, None, MITRE_ATTCK_GitHub,
          <<"5", ".", "0">>, Strftime(StartDay), None),
   Record(CVE_Vulnerability, <<"C", "1">>, <<"c">>, None, CISA_KEV_Catalog,
          <<"8", ".", "0">>, Strftime(StartDay - 9), None),
   Record(Malicious_URL, <<"x", ".", "R", "U", "/", "a">>, <<"d">>, None, Abuse_ch_URLhaus,
          <<"8", ".", "0">>, Strftime(StartDay), None),
   Record(Malicious_URL, <<"y", ".", "j", "p", "/", "u", "s", "/">>, <<"e">>, None, Abuse_ch_URLhaus,
          <<"7", ".", "0">>, Strftime(StartDay - 9), None),
   Record(Malicious_URL, None, None, None, None, None, None, None)}

\* A call of get_geographic_analysis.
Geographic ==
  /\ res = NoCall
  /\ \E time_range \in {PyStr(all), PyInt(7)},
        severity_filter \in {all, high},
        sources \in {<<>>, <<{}>>, <<{MITRE_ATTCK}>>, <<{Abuse_ch_URLhaus}>>} :
       \E out \in get_geographic_analysis(indicators, today, time_range,
                                          severity_filter, sources) :
         res' = [op              |-> "geo",
                 time_range      |-> time_range,
                 severity_filter |-> severity_filter,
                 sources         |-> sources,
                 out             |-> out]
  /\ UNCHANGED <<indicators, today, ticks, exports, user_queries, data_updates, txn, etl_proc>>

GeoNext ==
  \/ \E batch \in SeqUpTo(GeoRecords, MaxRows) : store_data(batch)
  \/ \E data \in SeqUpTo(GeoRecords, 1) : load_sample_data(data)
  \/ Geographic
  \/ Return

GeoSpec == Init /\ [][GeoNext]_vars

\* C9: when no indicator matches the filters of get_geographic_analysis, no
\* country of the answer carries a non-zero cve_vulnerabilities, mitre_techniques
\* or total count.
C9_NothingMatchesAllZero ==
  (/\ res.op = "geo"
   /\ BySources(SeverityBand(TimeTried(indicators, today, res.time_range),
                             res.severity_filter), res.sources) = <<>>) =>
    \A p \in 1..Len(res.out.countries) :
       /\ res.out.cve_vulnerabilities[p] = 0
       /\ res.out.mitre_techniques[p] = 0
       /\ res.out.totals[p] = 0

\* ------------------------------------------------------ search: further properties
\* C11: for a page number outside 1..pages the search does not raise, returns no
\* items, and current_page is the page whose items are returned (the page the
\* store serves, when there are matching rows to serve).
C11_OutOfRangePageEmpty ==
  (/\ res.op = "search"
   /\ SortColumn(res.args.sort_by) \in ColumnNames
   /\ \/ res.args.page < 1
      \/ (res.args.page - 1) * res.args.per_page >= MatchCount(res.args)) =>
    /\ res.out.raised = ""
    /\ res.out.items = <<>>
    /\ MatchCount(res.args) > 0 =>
         res.out.current_page = IF res.args.page < 1 THEN 1 ELSE res.args.page

\* ------------------------------------------------ dashboard reads: further properties
\* The number of rows of the store whose type is exactly type.
TypeCount(type) ==
  Cardinality({i \in 1..Len(indicators) : indicators[i].indicator_type = type})

\* C12: get_dashboard_stats returns total_indicators = the number of all rows, and
\* mitre_count, cve_count, urlhaus_count = the number of rows of exactly the types
\* 'MITRE Technique', 'CVE Vulnerability', 'Malicious URL'; rows of any other type
\* count in total_indicators only, and on an empty store all four are 0.
C12_DashboardCounts ==
  res.op = "stats" =>
    /\ res.cur.raised = ""
    /\ res.cur.total_indicators = Len(indicators)
    /\ res.cur.mitre_count = TypeCount(MITRE_Technique)
    /\ res.cur.cve_count = TypeCount(CVE_Vulnerability)
    /\ res.cur.urlhaus_count = TypeCount(Malicious_URL)
    /\ indicators = <<>> =>
         /\ res.cur.total_indicators = 0
         /\ res.cur.mitre_count = 0
         /\ res.cur.cve_count = 0
         /\ res.cur.urlhaus_count = 0

\* A read of a store holding a technique, a URL and a row of another type.
C12_Witness ==
  /\ res.op = "stats"
  /\ res.cur.total_indicators = 3
  /\ res.cur.mitre_count = 1
  /\ res.cur.cve_count = 0
  /\ res.cur.urlhaus_count = 1
  /\ \E i \in 1..Len(indicators) : indicators[i].indicator_type = Malware

\* The number of rows of the store whose column col is absent.
AbsentCount(col) ==
  Cardinality({i \in 1..Len(indicators) : indicators[i][col] = None})

\* C13: in get_dashboard_stats every row is counted in exactly one entry of
\* severity_distribution, a row without severity_score under the label 'Unknown',
\* so the counts of severity_distribution sum to total_indicators; likewise for
\* source_distribution.
C13_DistributionsCoverStore ==
  res.op = "stats" =>
    /\ res.cur.raised = ""
    /\ SumCounts(res.cur.severity_distribution) = res.cur.total_indicators
    /\ SumCounts(res.cur.source_distribution) = res.cur.total_indicators
    /\ AbsentCount("severity_score") > 0 =>
         [label |-> Unknown, count |-> AbsentCount("severity_score")]
           \in DOMAIN res.cur.severity_distribution
    /\ AbsentCount("source") > 0 =>
         [label |-> Unknown, count |-> AbsentCount("source")]
           \in DOMAIN res.cur.source_distribution

\* A read of a store with a scored row and a row without severity_score.
C13_Witness ==
  /\ res.op = "stats"
  /\ res.cur.total_indicators = 2
  /\ AbsentCount("severity_score") = 1
  /\ [label |-> Unknown, count |-> 1] \in DOMAIN res.cur.severity_distribution
  /\ Cardinality(DOMAIN res.cur.severity_distribution) = 2

\* ------------------------------------------------------ search: filter semantics
\* An option that is None, empty or whitespace-only.
Unset(option) == option = None \/ Strip(option) = <<>>

\* term is a case-insensitive substring of the column.
SubstringOf(term, col) == col # None /\ Contains(Lower(Strip(term)), Lower(col))

\* The conjunction of the active filters as the contract words it: the search term a
\* case-insensitive substring of one of four columns, the type an exact match unless
\* it is 'all' in any letter case, the source a case-insensitive substring; the
\* severity and date bounds compare as the store compares them.
SatisfiesFilters(row, a) ==
  /\ ~Unset(a.search_term) =>
        \/ SubstringOf(a.search_term, row.name)
        \/ SubstringOf(a.search_term, row.description)
        \/ SubstringOf(a.search_term, row.indicator_value)
        \/ SubstringOf(a.search_term, row.source)
  /\ (~Unset(a.indicator_type) /\ Lower(Strip(a.indicator_type)) # all) =>
        row.indicator_type = Strip(a.indicator_type)
  /\ ~Unset(a.severity_min) => SqlGe(row.severity_score, a.severity_min)
  /\ ~Unset(a.severity_max) => SqlLe(row.severity_score, a.severity_max)
  /\ ~Unset(a.date_from) => SqlGe(row.date_added, Strip(a.date_from))
  /\ ~Unset(a.date_to) => SqlLe(row.date_added, Strip(a.date_to))
  /\ ~Unset(a.source) => SubstringOf(a.source, row.source)

\* C14: advanced_search_indicators matches exactly the rows that satisfy the
\* conjunction of all active filters: the search term a case-insensitive substring
\* of name, description, indicator_value or source, the type an exact match (unset
\* when empty or 'all'), the source a case-insensitive substring, and an option
\* that is None, empty or whitespace-only no constraint.
C14_MatchesConjunction ==
  (res.op = "search" /\ SortColumn(res.args.sort_by) \in ColumnNames) =>
    /\ res.out.raised = ""
    /\ res.out.total =
         Cardinality({i \in 1..Len(indicators) : SatisfiesFilters(indicators[i], res.args)})

\* ------------------------------------------------------------------ export audit
\* json.dumps of the parameters dict {'type': report_type, 'days': days}.
json_dumps(parameters) ==
  <<"{", "x22", "t", "y", "p", "e", "x22", ":", " ", "x22">> \o parameters.type
    \o <<"x22", ",", " ", "x22", "d", "a", "y", "s", "x22", ":", " ">>
    \o IntToText(parameters.days) \o <<"}">>

\* record_export whose failure path leaves the row it added in the table.
record_export_norollback(table, now, export_type, report_type, format_type, days, filename, file_size, parameters, committed) ==
  [raised   |-> "",
   returned |-> committed,
   exports  |->
     Append(table,
       [id           |-> IF table = <<>> THEN 1 ELSE table[Len(table)].id + 1,
        export_type  |-> export_type,
        report_type  |-> report_type,
        format_type  |-> format_type,
        days         |-> days,
        filename     |-> filename,
        file_size    |-> IF file_size = <<>> THEN 0 ELSE file_size[1],
        generated_at |-> [day |-> now, instant |-> Len(table) + 1],
        parameters   |-> IF parameters = <<>> THEN None
                         ELSE json_dumps(parameters[1])])]

\* record_export: add one Export row and commit, answering True; when the store
\* refuses the insert or the commit (committed = FALSE), roll back and answer
\* False. file_size and parameters are <<>> for None or a falsy value, <<v>> else;
\* generated_at is the default utcnow(), later for every later row.
record_export(table, now, export_type, report_type, format_type, days, filename, file_size, parameters, committed) ==
  [raised   |-> "",
   returned |-> committed,
   exports  |->
     IF ~committed THEN table
     ELSE Append(table,
       [id           |-> IF table = <<>> THEN 1 ELSE table[Len(table)].id + 1,
        export_type  |-> export_type,
        report_type  |-> report_type,
        format_type  |-> format_type,
        days         |-> days,
        filename     |-> filename,
        file_size    |-> IF file_size = <<>> THEN 0 ELSE file_size[1],
        generated_at |-> [day |-> now, instant |-> Len(table) + 1],
        parameters   |-> IF parameters = <<>> THEN None
                         ELSE json_dumps(parameters[1])])]

\* The requests of /export/pdf: the report type and the days.
ExportRequests ==
  {[type |-> type, days |-> days] :
     type \in {<<"s", "u", "m", "m", "a", "r", "y">>}, days \in {7, 30}}

\* export_pdf: generate the report, record the export, send the file. A report that
\* cannot be generated is answered 500 and nothing is recorded; the answer of
\* record_export is not looked at. The caller holds the status of the response,
\* the outcome of record_export if it was called, and whether the store took the
\* insert and the commit.
export_pdf ==
  \E request \in ExportRequests, generated \in BOOLEAN, committed \in BOOLEAN :
    /\ res = NoCall
    /\ Len(exports) < MaxAudit
    /\ LET filename == <<"r", "e", "p", "o", "r", "t", "_">> \o request.type \o <<"_">>
                         \o Strftime(today) \o <<".", "p", "d", "f">>
           out      == record_export(exports, today, <<"p", "d", "f">>, request.type,
                                     <<"p", "d", "f">>, request.days, filename,
                                     <<1024>>, <<request>>, committed)
       IN  IF ~generated
           THEN /\ res' = [op |-> "export", status |-> 500, recorded |-> <<>>,
                           committed |-> FALSE]
                /\ UNCHANGED exports
           ELSE /\ res' = [op        |-> "export",
                           status    |-> IF out.raised = "" THEN 200 ELSE 500,
                           recorded  |-> <<out>>,
                           committed |-> committed]
                /\ exports' = out.exports
    /\ UNCHANGED <<indicators, today, ticks, user_queries, data_updates, txn, etl_proc>>

\* get_export_history: the newest rows first, at most limit of them, generated_at
\* as text and parameters read back by json.loads ({} for NULL).
get_export_history(table, limit) ==
  LET json_loads(text) == CHOOSE d \in ExportRequests : json_dumps(d) = text
      newest(k)        == table[Len(table) + 1 - k]
  IN  [k \in 1..Min(limit, Len(table)) |->
         [id           |-> newest(k).id,
          export_type  |-> newest(k).export_type,
          report_type  |-> newest(k).report_type,
          format_type  |-> newest(k).format_type,
          days         |-> newest(k).days,
          filename     |-> newest(k).filename,
          file_size    |-> newest(k).file_size,
          generated_at |-> Strftime(newest(k).generated_at.day)
                             \o <<" ", "0", "0", ":", "0", "0", ":", "0", "0">>,
          parameters   |-> IF Truthy(newest(k).parameters)
                           THEN <<json_loads(newest(k).parameters)>> ELSE <<>>]]

\* A history read that also prunes the table to the rows it returns.
ExportHistory_prune ==
  /\ res = NoCall
  /\ \E limit \in {1, 20} :
       /\ res' = [op |-> "history", limit |-> limit, out |-> get_export_history(exports, limit)]
       /\ exports' = SubSeq(exports, Max(1, Len(exports) + 1 - limit), Len(exports))
  /\ UNCHANGED <<indicators, today, ticks, user_queries, data_updates, txn, etl_proc>>

\* /api/export-history.
ExportHistory ==
  /\ res = NoCall
  /\ \E limit \in {1, 20} :
       res' = [op |-> "history", limit |-> limit, out |-> get_export_history(exports, limit)]
  /\ UNCHANGED <<indicators, today, ticks, exports, user_queries, data_updates, txn, etl_proc>>

\* ------------------------------------------------------------ temporal analysis
\* sorted(keys): the texts of a set in ascending order.
RECURSIVE SortTexts(_)
SortTexts(S) ==
  IF S = {} THEN <<>>
  ELSE LET least == CHOOSE x \in S : \A y \in S \ {x} : TextLess(x, y)
       IN  <<least>> \o SortTexts(S \ {least})

\* s.split(sep): the pieces of s between the separators.
RECURSIVE Split(_, _)
Split(s, sep) ==
  IF \A i \in 1..Len(s) : s[i] # sep THEN <<s>>
  ELSE LET at == CHOOSE i \in 1..Len(s) : s[i] = sep /\ \A j \in 1..(i - 1) : s[j] # sep
       IN  <<SubSeq(s, 1, at - 1)>> \o Split(SubSeq(s, at + 1, Len(s)), sep)

\* get_temporal_analysis: the rows dated in the last days days (and of the sources
\* asked for) counted per day and source; one bucket per day in ascending order of
\* the day's text, with the counts of the three tracked source labels and the
\* total of the day. A date the store cannot read as a date is the bucket 'None'.
\* No record of the model carries the source label 'total'.
get_temporal_analysis(table, now, days, source) ==
  LET wanted  == SelectSeq(Split(source, ","), LAMBDA piece : Strip(piece) # <<>>)
      Keep(row) ==
        IF ~Truthy(source) \/ Lower(source) = all THEN TRUE
        ELSE IF \E i \in 1..Len(source) : source[i] = ","
             THEN wanted = <<>> \/
                  \E k \in 1..Len(wanted) : ILikeContains(row.source, Strip(wanted[k]))
             ELSE ILikeContains(row.source, source)
      DateStr(date) == IF date = None THEN <<"N", "o", "n", "e">> ELSE date
      DayOf(rows)   == [i \in 1..Len(rows) |-> DateStr(Dates(rows)[i])] \o <<>>
      Count(rows, day, date, label) ==
        Cardinality({i \in 1..Len(rows) : day[i] = date /\ rows[i].source = label})
      Total(day, date) == Cardinality({i \in 1..Len(day) : day[i] = date})
      Series(rows, day, dates) ==
        [dates   |-> dates,
         mitre   |-> [k \in 1..Len(dates) |-> Count(rows, day, dates[k], MITRE_ATTCK)] \o <<>>,
         cisa    |-> [k \in 1..Len(dates) |-> Count(rows, day, dates[k], CISA_KEV)] \o <<>>,
         urlhaus |-> [k \in 1..Len(dates) |-> Count(rows, day, dates[k], Abuse_ch_URLhaus)] \o <<>>,
         total   |-> [k \in 1..Len(dates) |-> Total(day, dates[k])] \o <<>>]
  IN  CHOOSE out \in
        UNION {UNION {{Series(rows, day, dates) :
                         dates \in {SortTexts({day[i] : i \in 1..Len(day)})}} :
                      day \in {DayOf(rows)}} :
               rows \in {SelectSeq(Since(table, now, days), Keep)}} : TRUE

\* sum(total_data).
RECURSIVE Sum(_)
Sum(seq) == IF seq = <<>> THEN 0 ELSE Head(seq) + Sum(Tail(seq))

\* Literals of get_threat_trends_analysis.
stable == <<"s", "t", "a", "b", "l", "e">>

increasing == <<"i", "n", "c", "r", "e", "a", "s", "i", "n", "g">>

decreasing == <<"d", "e", "c", "r", "e", "a", "s", "i", "n", "g">>

\* strftime('%A'); the calendar of the model is December 2023 and January 2024,
\* whose day 1 is a Friday.
Weekdays == <<"Monday", "Tuesday", "Wednesday", "Thursday", "Friday", "Saturday", "Sunday">>

\* The peak dates with the descending order made by reversing an ascending sort.
peak_dates_reversed(dates, total) ==
  LET n       == Len(total)
      Rank(i) == 1 + Cardinality({j \in 1..n : \/ total[j] > total[i]
                                               \/ total[j] = total[i] /\ j > i})
      At(k)   == CHOOSE i \in 1..n : Rank(i) = k
  IN  [k \in 1..Min(3, n) |-> <<dates[At(k)], total[At(k)]>>] \o <<>>

\* sorted(zip(dates, total_data), key=lambda x: x[1], reverse=True)[:3]: a stable
\* sort, so that of two days with equal totals the one earlier in dates comes first.
peak_dates(dates, total) ==
  LET n       == Len(total)
      Rank(i) == 1 + Cardinality({j \in 1..n : \/ total[j] > total[i]
                                               \/ total[j] = total[i] /\ j < i})
      At(k)   == CHOOSE i \in 1..n : Rank(i) = k
  IN  [k \in 1..Min(3, n) |-> <<dates[At(k)], total[At(k)]>>] \o <<>>

\* The trend with the two means compared as they are, without the 10% margins.
trend_direction_nomargin(total) ==
  LET n       == Len(total)
      recent  == Sum(SubSeq(total, n - 6, n))
      earlier == Sum(SubSeq(total, 1, 7))
  IN  IF n >= 7
      THEN IF recent > earlier THEN increasing
           ELSE IF recent < earlier THEN decreasing
           ELSE stable
      ELSE stable

\* The pairs <<recent, earlier>> of sums below 160 for which the double arithmetic
\* of recent / 7 < (earlier / 7) * 0.9 differs from the exact comparison:
\* 81 / 7 is 11.571428571428571 and (90 / 7) * 0.9 is 11.571428571428573. For
\* recent / 7 > (earlier / 7) * 1.1 there is no such pair.
RoundedApart == {<<81, 90>>}

\* The trend of the series: the mean of the last seven totals against the mean of
\* the first seven, recent_avg > earlier_avg * 1.1 and recent_avg < earlier_avg * 0.9,
\* in double arithmetic. For sums below 160 the comparisons are those of
\* 10 * recent with 11 * earlier and 9 * earlier, but for the pairs of RoundedApart.
trend_direction(total) ==
  LET n       == Len(total)
      recent  == Sum(SubSeq(total, n - 6, n))
      earlier == Sum(SubSeq(total, 1, 7))
  IN  IF n >= 7
      THEN IF 10 * recent > 11 * earlier THEN increasing
           ELSE IF 10 * recent < 9 * earlier \/ <<recent, earlier>> \in RoundedApart
                THEN decreasing
                ELSE stable
      ELSE stable

\* get_threat_trends_analysis over the answer of get_temporal_analysis(days).
\* average_daily is in hundredths (round(x, 2) rounds halves to even);
\* weekly_pattern holds for every weekday the sum and the number of its totals.
\* keys are the keys of the dict returned.
get_threat_trends_analysis(temporal) ==
  LET total   == temporal.total
      dates   == temporal.dates
      n       == Len(total)
      q       == (100 * Sum(total)) \div n
      r       == (100 * Sum(total)) % n
      Parses(date) == Len(date) = 10 /\ IsDigit(date[1])
      DayOf(date)  == (IF date[6] = "1" THEN 0 ELSE 31)
                        + 10 * DigitVal(date[9]) + DigitVal(date[10])
      OnDay(w)     == {i \in 1..n : Parses(dates[i]) /\ ((DayOf(dates[i]) + 3) % 7) + 1 = w}
  IN  IF total = <<>>
      THEN [keys            |-> {"peak_dates", "average_daily", "trend_direction",
                                 "weekly_pattern", "monthly_summary"},
            peak_dates      |-> <<>>,
            average_daily   |-> 0,
            trend_direction |-> stable,
            weekly_pattern  |-> {},
            temporal_data   |-> <<>>]
      ELSE [keys            |-> {"peak_dates", "average_daily", "trend_direction",
                                 "weekly_pattern", "temporal_data"},
            peak_dates      |-> peak_dates(dates, total),
            average_daily   |-> IF 2 * r > n \/ (2 * r = n /\ q % 2 = 1) THEN q + 1 ELSE q,
            trend_direction |-> trend_direction(total),
            weekly_pattern  |-> {[day   |-> Weekdays[w],
                                  sum   |-> Sum([i \in 1..n |->
                                                  IF i \in OnDay(w) THEN total[i] ELSE 0]),
                                  count |-> Cardinality(OnDay(w))] :
                                 w \in {v \in 1..7 : OnDay(v) # {}}},
            temporal_data   |-> <<temporal>>]

\* ------------------------------------------------------------ trend reads
\* Most days of the window on which a feed batch holds records.
MaxDays == 8

\* The batches of the feeds for the trend reads, the newest day first: on each of
\* the last n days one technique, or one technique and one vulnerability (under
\* the label the vulnerability feed writes); and a batch of eight busier days,
\* with 10, 13, 13, 13, 13, 14, 14 techniques and then one.
TrendBatches ==
  LET Technique(k) ==
        Record(MITRE_Technique, <<"T">>, <<"t">>, None, MITRE_ATTCK,
               <<"5", ".", "0">>, Strftime(StartDay - k), None)
      OfDay(k, count) ==
        IF count = 2
        THEN <<Technique(k),
               Record(CVE_Vulnerability, <<"C">>, <<"c">>, None, CISA_KEV_Catalog,
                      <<"8", ".", "0">>, Strftime(StartDay - k), None)>>
        ELSE [i \in 1..count |-> Technique(k)] \o <<>>
      RECURSIVE Batch(_)
      Batch(counts) ==
        IF counts = <<>> THEN <<>>
        ELSE Batch(SubSeq(counts, 1, Len(counts) - 1))
               \o OfDay(Len(counts) - 1, counts[Len(counts)])
  IN  {Batch(counts) : counts \in SeqUpTo({1, 2}, MaxDays)
                                   \union {<<1, 14, 14, 13, 13, 13, 13, 10>>}}

\* /api/temporal-analysis.
TemporalAnalysis ==
  /\ res = NoCall
  /\ \E days \in {7, 30},
        source \in {None, <<"A", "L", "L">>, <<"k", "e", "v">>, <<"m", "i", "t", "r", "e", ",", " ", "x">>, <<",">>} :
       res' = [op |-> "temporal", days |-> days, source |-> source,
               out |-> get_temporal_analysis(indicators, today, days, source)]
  /\ UNCHANGED <<indicators, today, ticks, exports, user_queries, data_updates, txn, etl_proc>>

\* /api/threat-trends.
ThreatTrends ==
  /\ res = NoCall
  /\ \E days \in {3, 30} :
       res' = [op |-> "trends", days |-> days,
               out |-> get_threat_trends_analysis(
                         get_temporal_analysis(indicators, today, days, None))]
  /\ UNCHANGED <<indicators, today, ticks, exports, user_queries, data_updates, txn, etl_proc>>

\* The ETL runs once, on the empty store.
TrendNext ==
  \/ \E batch \in TrendBatches : indicators = <<>> /\ store_data(batch)
  \/ TemporalAnalysis
  \/ ThreatTrends
  \/ Return

TrendSpec == Init /\ [][TrendNext]_vars

\* The series of day totals a trends answer classified, and its length.
SeriesOf(out) == IF out.temporal_data = <<>> THEN <<>> ELSE out.temporal_data[1].total

\* The sum of the totals of the buckets from..to of a series.
RECURSIVE WindowSum(_, _, _)
WindowSum(series, from, to) ==
  IF from > to THEN 0 ELSE series[from] + WindowSum(series, from + 1, to)

\* C19: get_threat_trends_analysis classifies the day-ordered series of n totals as
\* 'stable' whenever n < 7; otherwise 'increasing' exactly when the mean of the last
\* 7 totals is above 1.10 times the mean of the first 7, 'decreasing' exactly when
\* it is below 0.90 times that mean, and 'stable' otherwise (the windows overlap
\* for 7 <= n < 14); a series of equal totals is 'stable'. The means are compared
\* as fractions over 7, scaled by 700.
C19_TrendDirection ==
  res.op = "trends" =>
    LET series == SeriesOf(res.out)
        n      == Len(series)
        last   == WindowSum(series, n - 6, n)
        first  == WindowSum(series, 1, 7)
        trend  == res.out.trend_direction
    IN  /\ trend \in {stable, increasing, decreasing}
        /\ n < 7 => trend = stable
        /\ n >= 7 =>
             /\ trend = increasing <=> 100 * last > 110 * first
             /\ trend = decreasing <=> 100 * last < 90 * first
        /\ (\A i, j \in 1..n : series[i] = series[j]) => trend = stable

\* A rising series of eight days, the two windows sharing six of them.
C19_Witness ==
  /\ res.op = "trends"
  /\ Len(SeriesOf(res.out)) = 8
  /\ res.out.trend_direction = increasing

\* C20: peak_dates holds the min(3, n) days with the highest totals of the n day
\* buckets, in non-increasing order of total; of days with equal totals the
\* chronologically earlier comes first, and no day left out has a total above
\* that of a day included.
C20_PeakDates ==
  res.op = "trends" =>
    LET series == SeriesOf(res.out)
        n      == Len(series)
        dates  == IF n = 0 THEN <<>> ELSE res.out.temporal_data[1].dates
        peaks  == res.out.peak_dates
        In(i)  == \E k \in 1..Len(peaks) : peaks[k][1] = dates[i]
    IN  /\ Len(peaks) = Min(3, n)
        /\ \A k \in 1..Len(peaks) :
             \E i \in 1..n : peaks[k] = <<dates[i], series[i]>>
        /\ \A k, l \in 1..Len(peaks) :
             k < l => /\ peaks[k][1] # peaks[l][1]
                      /\ peaks[k][2] >= peaks[l][2]
                      /\ peaks[k][2] = peaks[l][2] => TextLess(peaks[k][1], peaks[l][1])
        /\ \A i, j \in 1..n : (In(i) /\ ~In(j)) => series[i] >= series[j]

\* More than three days, the highest total shared by two of them and a day of a
\* lower total left out.
C20_Witness ==
  /\ res.op = "trends"
  /\ Len(SeriesOf(res.out)) > 3
  /\ Len(res.out.peak_dates) = 3
  /\ res.out.peak_dates[1][2] = res.out.peak_dates[2][2]
  /\ res.out.peak_dates[2][2] > res.out.peak_dates[3][2]

\* ------------------------------------------------------------------ core frame
\* get_filter_options: the distinct sources and severities that are not empty (in
\* the store's order, here as sets) and the least and greatest date_added.
get_filter_options(table) ==
  LET Distinct(col) == {table[i][col] : i \in 1..Len(table)} \ {None, <<>>}
      dated         == {table[i].date_added : i \in 1..Len(table)} \ {None}
      Least(S)      == CHOOSE x \in S : \A y \in S \ {x} : TextLess(x, y)
      Greatest(S)   == CHOOSE x \in S : \A y \in S \ {x} : TextLess(y, x)
  IN  [sources    |-> Distinct("source"),
       severities |-> Distinct("severity_score"),
       date_range |-> [min |-> IF dated \ {<<>>} = {} \/ Least(dated) = <<>>
                               THEN None ELSE Least(dated),
                       max |-> IF dated \ {<<>>} = {} THEN None ELSE Greatest(dated)]]

\* /api/filter-options.
FilterOptions ==
  /\ res = NoCall
  /\ res' = [op |-> "options", out |-> get_filter_options(indicators)]
  /\ UNCHANGED <<indicators, today, ticks, exports, user_queries, data_updates, txn, etl_proc>>

\* ai_insights (POST): the question and the answer of the assistant are kept as a
\* UserQuery row. This handler is the application's, not the core's.
ai_insights ==
  \E question \in {<<"q">>}, answer \in {<<"a">>} :
    /\ res = NoCall
    /\ Len(user_queries) < MaxAudit
    /\ user_queries' =
         Append(user_queries,
           [id |-> Len(user_queries) + 1, question |-> question, answer |-> answer])
    /\ UNCHANGED <<indicators, today, ticks, res, exports, data_updates, txn, etl_proc>>

\* The core under the application: the store is loaded by the ETL, every query and
\* aggregation is called, exports are recorded and questions are asked.
CoreNext ==
  \/ \E batch \in SeqUpTo(SearchFeedRecords, 1) : store_data(batch)
  \/ Search
  \/ DashboardStats
  \/ FilteredStats
  \/ FilterOptions
  \/ TemporalAnalysis
  \/ Geographic
  \/ ThreatTrends
  \/ ExportHistory
  \/ export_pdf
  \/ ai_insights
  \/ Return

CoreSpec == Init /\ [][CoreNext]_vars

\* C15: record_export never raises: when the insert succeeds it adds exactly one
\* Export row, changes no existing row and returns True; when the insert or the
\* commit fails it leaves the Export table as it was before the call and returns
\* False; the export that called it still completes.
C15_RecordExportOutcome ==
  [][(res'.op = "export" /\ res'.recorded # <<>>) =>
       LET out == res'.recorded[1]
       IN  /\ out.raised = ""
           /\ out.returned = res'.committed
           /\ out.returned =>
                /\ Len(exports') = Len(exports) + 1
                /\ SubSeq(exports', 1, Len(exports)) = exports
           /\ ~out.returned => exports' = exports
           /\ res'.status = 200]_vars

\* An export whose audit row the store refused, after one that was recorded: the
\* file is sent and the table holds the one earlier row.
C15_Witness ==
  /\ res.op = "export"
  /\ res.recorded # <<>>
  /\ ~res.recorded[1].returned
  /\ res.status = 200
  /\ Len(exports) = 1

\* What a caller holds after a query or aggregation call of the core.
QueryOps ==
  {"search", "pages", "stats", "filtered", "options", "temporal", "geo", "trends", "history"}

\* C16: a query or aggregation call (advanced_search_indicators,
\* get_dashboard_stats, get_filtered_dashboard_stats, get_filter_options,
\* get_temporal_analysis, get_geographic_analysis, get_threat_trends_analysis,
\* get_export_history) leaves the Indicator and UserQuery tables unchanged (and
\* the audit tables too); the only write of the core is record_export, and a step
\* that changes the Export table is an export that appends to it.
C16_QueriesWriteNothing ==
  [][/\ res'.op \in QueryOps =>
          /\ indicators' = indicators
          /\ user_queries' = user_queries
          /\ exports' = exports
          /\ data_updates' = data_updates
     /\ exports' # exports =>
          /\ res'.op = "export"
          /\ Len(exports') = Len(exports) + 1
          /\ SubSeq(exports', 1, Len(exports)) = exports
          /\ indicators' = indicators
          /\ user_queries' = user_queries]_vars

\* The export history read with rows in all three tables.
C16_Witness ==
  /\ res.op = "history"
  /\ Len(res.out) = 1
  /\ Len(exports) = 2
  /\ indicators # <<>>
  /\ user_queries # <<>>

\* ------------------------------------------------------------------ data updates
\* A DataUpdate row; records_processed defaults to 0; error_message is <<>> for
\* NULL, <<message>> else.
DataUpdate(id, update_type, status, records_processed, error_message) ==
  [id |-> id, update_type |-> update_type, status |-> status,
   records_processed |-> records_processed, error_message |-> error_message]

\* run_etl that records the run under the status 'completed'.
run_etl_completed(table, updates, mitre_data, cisa_data, urlhaus_data, stored, tracking, recorded) ==
  LET normalized_data == mitre_data \o cisa_data \o urlhaus_data
      update == IF stored
                THEN DataUpdate(Len(updates) + 1, "etl_pipeline", "completed",
                                Len(normalized_data), <<>>)
                ELSE DataUpdate(Len(updates) + 1, "etl_pipeline", "failed", 0,
                                <<"ETL pipeline failed at storage step">>)
  IN  IF mitre_data = <<>> /\ cisa_data = <<>> /\ urlhaus_data = <<>>
      THEN [returned |-> FALSE, indicators |-> table, data_updates |-> updates]
      ELSE [returned     |-> stored,
            indicators   |-> IF stored THEN InsertAll(<<>>, normalized_data) ELSE table,
            data_updates |-> IF tracking /\ recorded THEN Append(updates, update)
                             ELSE updates]

\* ThreatIntelligenceETL.run_etl over the three downloads: nothing downloaded is a
\* failure that stores and records nothing; else the merged records replace the
\* table if store_data succeeds (stored), and, if the tracking imports loaded
\* (tracking) and the insert is committed (recorded), one DataUpdate row tells the
\* outcome.
run_etl(table, updates, mitre_data, cisa_data, urlhaus_data, stored, tracking, recorded) ==
  LET normalized_data == mitre_data \o cisa_data \o urlhaus_data
      update == IF stored
                THEN DataUpdate(Len(updates) + 1, "etl_pipeline", "success",
                                Len(normalized_data), <<>>)
                ELSE DataUpdate(Len(updates) + 1, "etl_pipeline", "failed", 0,
                                <<"ETL pipeline failed at storage step">>)
  IN  IF mitre_data = <<>> /\ cisa_data = <<>> /\ urlhaus_data = <<>>
      THEN [returned |-> FALSE, indicators |-> table, data_updates |-> updates]
      ELSE [returned     |-> stored,
            indicators   |-> IF stored THEN InsertAll(<<>>, normalized_data) ELSE table,
            data_updates |-> IF tracking /\ recorded THEN Append(updates, update)
                             ELSE updates]

\* record_data_update: an append-only audit insert of one DataUpdate row, answered
\* by a boolean; a refused insert (committed = FALSE) leaves the table as it was.
record_data_update(updates, update_type, status, records_processed, error_message, committed) ==
  [returned     |-> committed,
   data_updates |-> IF committed
                    THEN Append(updates, DataUpdate(Len(updates) + 1, update_type, status,
                                                    records_processed, error_message))
                    ELSE updates]

\* The downloads of a run: each feed brings its record or nothing.
Downloads ==
  [mitre   : SeqUpTo({r \in SearchFeedRecords : r.indicator_type = MITRE_Technique}, 1),
   cisa    : SeqUpTo({r \in SearchFeedRecords : r.indicator_type = CVE_Vulnerability}, 1),
   urlhaus : SeqUpTo({r \in StatsRecords : r.indicator_type = Malicious_URL}, 1)]

\* python etl_pipeline.py, run by hand.
main ==
  \E feeds \in Downloads, stored \in BOOLEAN, tracking \in BOOLEAN, recorded \in BOOLEAN :
    /\ res = NoCall
    /\ Len(data_updates) < MaxAudit
    /\ LET etl == run_etl(indicators, data_updates, feeds.mitre, feeds.cisa,
                          feeds.urlhaus, stored, tracking, recorded)
       IN  /\ indicators' = etl.indicators
           /\ data_updates' = etl.data_updates
    /\ UNCHANGED <<today, ticks, res, exports, user_queries, txn, etl_proc>>

\* api_update_data that answers a timeout without recording the failure.
api_update_data_silent ==
  \E feeds \in Downloads, stored \in BOOLEAN, tracking \in BOOLEAN, recorded \in BOOLEAN,
     started \in BOOLEAN, finished \in BOOLEAN,
     child \in {"exit0", "exit1", "timeout", "error"} :
    /\ res = NoCall
    /\ Len(data_updates) < MaxAudit
    /\ LET begun == record_data_update(data_updates, "manual_update", "in_progress",
                                       0, <<>>, started)
           etl   == IF child = "exit0"
                    THEN run_etl(indicators, begun.data_updates, feeds.mitre, feeds.cisa,
                                 feeds.urlhaus, stored, tracking, recorded)
                    ELSE [returned |-> FALSE, indicators |-> indicators,
                          data_updates |-> begun.data_updates]
           ended == IF child = "exit0"
                    THEN record_data_update(etl.data_updates, "manual_update", "success",
                                            Len(etl.indicators), <<>>, finished)
                    ELSE IF child = "timeout"
                    THEN [returned |-> FALSE, data_updates |-> etl.data_updates]
                    ELSE record_data_update(etl.data_updates, "manual_update", "failed",
                                            0, <<child>>, finished)
       IN  /\ indicators' = etl.indicators
           /\ data_updates' = ended.data_updates
           /\ res' = [op      |-> "update",
                      child   |-> child,
                      status  |-> IF child = "exit0" THEN 200 ELSE 500,
                      success |-> child = "exit0",
                      etl     |-> etl.returned,
                      before  |-> Len(data_updates),
                      started |-> started,
                      finished |-> finished]
    /\ UNCHANGED <<today, ticks, exports, user_queries, txn, etl_proc>>

\* api_update_data: record the start, run etl_pipeline.py as a child process,
\* record the end and answer. The child ends with exit code 0 whatever run_etl
\* returned ("exit0"), crashes ("exit1"), is killed after 300 seconds ("timeout"),
\* or cannot be started ("error"); a child that did not end by itself has
\* committed nothing.
api_update_data ==
  \E feeds \in Downloads, stored \in BOOLEAN, tracking \in BOOLEAN, recorded \in BOOLEAN,
     started \in BOOLEAN, finished \in BOOLEAN,
     child \in {"exit0", "exit1", "timeout", "error"} :
    /\ res = NoCall
    /\ Len(data_updates) < MaxAudit
    /\ LET begun == record_data_update(data_updates, "manual_update", "in_progress",
                                       0, <<>>, started)
           etl   == IF child = "exit0"
                    THEN run_etl(indicators, begun.data_updates, feeds.mitre, feeds.cisa,
                                 feeds.urlhaus, stored, tracking, recorded)
                    ELSE [returned |-> FALSE, indicators |-> indicators,
                          data_updates |-> begun.data_updates]
           ended == IF child = "exit0"
                    THEN record_data_update(etl.data_updates, "manual_update", "success",
                                            Len(etl.indicators), <<>>, finished)
                    ELSE record_data_update(etl.data_updates, "manual_update", "failed",
                                            0, <<child>>, finished)
       IN  /\ indicators' = etl.indicators
           /\ data_updates' = ended.data_updates
           /\ res' = [op      |-> "update",
                      child   |-> child,
                      status  |-> IF child = "exit0" THEN 200 ELSE 500,
                      success |-> child = "exit0",
                      etl     |-> etl.returned,
                      before  |-> Len(data_updates),
                      started |-> started,
                      finished |-> finished]
    /\ UNCHANGED <<today, ticks, exports, user_queries, txn, etl_proc>>

UpdateNext ==
  \/ main
  \/ api_update_data
  \/ DashboardStats
  \/ Return

UpdateSpec == Init /\ [][UpdateNext]_vars

\* C17: a DataUpdate row whose status is success or failed keeps its status in
\* every later state and never returns to in_progress, and no status other than
\* in_progress, success and failed is ever stored.
C17_StatusTerminal ==
  [][/\ \A i \in 1..Len(data_updates) :
          data_updates[i].status \in {"success", "failed"} =>
            /\ i <= Len(data_updates')
            /\ data_updates'[i].id = data_updates[i].id
            /\ data_updates'[i].status = data_updates[i].status
     /\ \A i \in 1..Len(data_updates') :
          data_updates'[i].status \in {"in_progress", "success", "failed"}]_vars

\* A manual update that recorded its start and its success around the row of the
\* ETL run, after an earlier run had failed.
C17_Witness ==
  /\ res.op = "update"
  /\ res.before = 1
  /\ Len(data_updates) = 4
  /\ data_updates[1].status = "failed"
  /\ data_updates[2].status = "in_progress"
  /\ data_updates[3].update_type = "etl_pipeline"
  /\ data_updates[4].status = "success"

\* ------------------------------------------------------------ reload and readers
\* store_data step by step on the connection it opens. sqlite3 begins a transaction
\* before the first DELETE or INSERT of a connection and the rows a connection
\* writes are in the database file, where other connections read, from its commit
\* on. txn holds the table as the ETL's connection sees it (table), the records
\* still to insert (todo), the table as committed when store_data began (before)
\* and the arguments of the call (batch, clear_existing).
\*
\* store_data that never clears the table.
store_data_begin_append(batch, clear_existing) ==
  /\ txn = <<>>
  /\ txn' = <<[before |-> indicators,
               table  |-> indicators,
               todo   |-> batch,
               batch  |-> batch,
               clear_existing |-> clear_existing]>>
  /\ etl_proc' = NoRun
  /\ UNCHANGED <<indicators, today, ticks, res, exports, user_queries, data_updates>>

\* cursor.execute("DELETE FROM indicators"), in replace-all mode; the enhanced
\* pipeline skips it for clear_existing = False.
store_data_begin(batch, clear_existing) ==
  /\ txn = <<>>
  /\ txn' = <<[before |-> indicators,
               table  |-> IF clear_existing THEN <<>> ELSE indicators,
               todo   |-> batch,
               batch  |-> batch,
               clear_existing |-> clear_existing]>>
  /\ etl_proc' = NoRun
  /\ UNCHANGED <<indicators, today, ticks, res, exports, user_queries, data_updates>>

\* The INSERT of a record on a connection that commits every statement by itself.
store_data_insert_autocommit ==
  /\ txn # <<>>
  /\ txn[1].todo # <<>>
  /\ txn' = <<[txn[1] EXCEPT !.table = InsertAll(txn[1].table, <<Head(txn[1].todo)>>),
                             !.todo  = Tail(txn[1].todo)]>>
  /\ indicators' = InsertAll(txn[1].table, <<Head(txn[1].todo)>>)
  /\ UNCHANGED <<today, ticks, res, exports, user_queries, data_updates, etl_proc>>

\* The INSERT of the next record of the batch.
store_data_insert ==
  /\ txn # <<>>
  /\ txn[1].todo # <<>>
  /\ txn' = <<[txn[1] EXCEPT !.table = InsertAll(txn[1].table, <<Head(txn[1].todo)>>),
                             !.todo  = Tail(txn[1].todo)]>>
  /\ UNCHANGED <<indicators, today, ticks, res, exports, user_queries, data_updates, etl_proc>>

\* What store_data returned, with the arguments of the call, the table as
\* committed when it began and the number of records it had inserted.
Returned(value) ==
  [op |-> "store_data", returned |-> value, batch |-> txn[1].batch,
   clear_existing |-> txn[1].clear_existing, before |-> txn[1].before,
   inserted |-> Len(txn[1].batch) - Len(txn[1].todo)]

\* conn.commit() after the last INSERT: the table of the connection is the table,
\* and store_data returns True.
store_data_commit ==
  /\ txn # <<>>
  /\ txn[1].todo = <<>>
  /\ indicators' = txn[1].table
  /\ txn' = <<>>
  /\ etl_proc' = Returned(TRUE)
  /\ UNCHANGED <<today, ticks, res, exports, user_queries, data_updates>>

\* The failure of a connection that keeps what its statements had written.
store_data_fail_kept ==
  /\ txn # <<>>
  /\ txn' = <<>>
  /\ etl_proc' = Returned(FALSE)
  /\ indicators' = txn[1].table
  /\ UNCHANGED <<today, ticks, res, exports, user_queries, data_updates>>

\* A statement raises: store_data returns False without a commit, and the
\* connection, closed with the call, rolls its transaction back.
store_data_fail ==
  /\ txn # <<>>
  /\ txn' = <<>>
  /\ etl_proc' = Returned(FALSE)
  /\ UNCHANGED <<indicators, today, ticks, res, exports, user_queries, data_updates>>

\* The counts of get_dashboard_stats read on the application's connection while
\* store_data is under way: the store answers from the committed table, or
\* refuses while the file is locked. The caller also holds the counts of the
\* table as committed before the reload and as the reload has it by now.
ConcurrentRead ==
  /\ res = NoCall
  /\ txn # <<>>
  /\ \E raised \in {"", "OperationalError"} :
       res' = [op     |-> "read",
               raised |-> raised,
               out    |-> IF raised = "" THEN <<CountsOf(indicators)>> ELSE <<>>,
               before |-> CountsOf(txn[1].before),
               staged |-> CountsOf(txn[1].table)]
  /\ UNCHANGED <<indicators, today, ticks, exports, user_queries, data_updates, txn, etl_proc>>

\* The steps of store_data, on batches of techniques.
ReloadSteps ==
  \/ \E batch \in SeqUpTo({r \in SearchFeedRecords : r.indicator_type = MITRE_Technique},
                           MaxRows) \ {<<>>},
        clear_existing \in BOOLEAN :
       /\ clear_existing \/ Len(indicators) + Len(batch) <= MaxRows
       /\ store_data_begin(batch, clear_existing)
  \/ store_data_insert
  \/ store_data_commit

ReloadNext ==
  \/ ReloadSteps
  \/ store_data_fail
  \/ ConcurrentRead
  \/ Return

\* The ETL process runs on, a failure is not bound to happen, and the application
\* answers requests also while a reload is under way.
ReloadSpec ==
  /\ Init
  /\ [][ReloadNext]_vars
  /\ WF_vars(ReloadSteps)
  /\ WF_vars(Return)
  /\ SF_vars(ConcurrentRead)

\* A read that answered during a reload with the counts of the table the reload
\* had made so far, not those of the table committed before it.
ObservedReload ==
  /\ res.op = "read"
  /\ res.raised = ""
  /\ res.out[1] = res.staged
  /\ res.staged # res.before

\* C18 as claimed: during a replace-all reload a read on another connection
\* observes the indicators table empty or only partially populated.
C18_ReaderObservesReload == <>ObservedReload

\* C18 as the code has it: a read on another connection during a reload answers
\* from the table committed before the reload began, or fails on the locked
\* database; the DELETE and the INSERTs of the reload show together, from the
\* commit on.
C18_ReaderSeesLastCommit ==
  res.op = "read" => (res.raised # "" \/ res.out[1] = res.before)

\* A read that answered while the reload had cleared a table of two rows and
\* inserted one row of the new batch.
C18_Witness ==
  /\ res.op = "read"
  /\ res.raised = ""
  /\ res.before.total_indicators = 2
  /\ res.staged.total_indicators = 1
  /\ res.out[1].total_indicators = 2

\* ------------------------------------------------- temporal analysis: properties
\* The rows a temporal read covers: dated on or after the cutoff day, and of a
\* source that contains one of the terms asked for (none asked for: every source).
Covered(days, source) ==
  LET terms == IF ~Truthy(source) \/ Lower(source) = all THEN {}
               ELSE IF \E i \in 1..Len(source) : source[i] = ","
                    THEN {Strip(piece) : piece \in Range(Split(source, ","))} \ {<<>>}
                    ELSE {source}
  IN  {i \in 1..Len(indicators) :
         /\ SqlGe(indicators[i].date_added, Strftime(today - days))
         /\ terms # {} => \E term \in terms :
                             /\ indicators[i].source # None
                             /\ Contains(Lower(term), Lower(indicators[i].source))}

C29_TotalIsSumOfSeries ==
  res.op = "temporal" =>
    \A i \in 1..Len(res.out.dates) :
       res.out.total[i] = res.out.mitre[i] + res.out.cisa[i] + res.out.urlhaus[i]

\* C22: when no indicator falls in the window, get_temporal_analysis returns empty
\* dates, mitre, cisa, urlhaus and total, and get_threat_trends_analysis returns
\* the keys of a non-empty window (peak_dates, average_daily, trend_direction,
\* weekly_pattern, temporal_data) with peak_dates = [], average_daily = 0,
\* trend_direction = 'stable', weekly_pattern = {} and temporal_data the empty series.
C22_EmptyWindow ==
  LET Empty == [dates |-> <<>>, mitre |-> <<>>, cisa |-> <<>>, urlhaus |-> <<>>,
                total |-> <<>>]
  IN  /\ (res.op = "temporal" /\ Covered(res.days, res.source) = {}) => res.out = Empty
      /\ (res.op = "trends" /\ Covered(res.days, None) = {}) =>
           /\ res.out.keys = {"peak_dates", "average_daily", "trend_direction",
                              "weekly_pattern", "temporal_data"}
           /\ res.out.peak_dates = <<>>
           /\ res.out.average_daily = 0
           /\ res.out.trend_direction = stable
           /\ res.out.weekly_pattern = {}
           /\ res.out.temporal_data = <<Empty>>

\* ------------------------------------------------- geographic reads: properties
\* C23: in every get_geographic_analysis result countries, malicious_urls,
\* cve_vulnerabilities, mitre_techniques and totals are equally long, the country
\* names are pairwise distinct, totals is in non-increasing order, and totals[i] =
\* malicious_urls[i] + cve_vulnerabilities[i] + mitre_techniques[i], also for a
\* country that receives URL-derived and simulated counts.
C23_GeographicLists ==
  res.op = "geo" =>
    LET out == res.out
        n   == Len(out.countries)
    IN  /\ Len(out.malicious_urls) = n /\ Len(out.cve_vulnerabilities) = n
        /\ Len(out.mitre_techniques) = n /\ Len(out.totals) = n
        /\ \A i, j \in 1..n : i < j => /\ out.countries[i] # out.countries[j]
                                       /\ out.totals[i] >= out.totals[j]
        /\ \A i \in 1..n :
             out.totals[i] = out.malicious_urls[i] + out.cve_vulnerabilities[i]
                               + out.mitre_techniques[i]

\* A country with counts of both paths, and totals that differ.
C23_Witness ==
  /\ res.op = "geo"
  /\ \E i \in 1..Len(res.out.countries) :
        /\ res.out.malicious_urls[i] > 0
        /\ res.out.cve_vulnerabilities[i] > 0
        /\ res.out.mitre_techniques[i] > 0
  /\ res.out.totals[1] > res.out.totals[Len(res.out.totals)]

\* The Malicious URL rows a geographic read selects.
UrlRows ==
  OfType(BySources(SeverityBand(TimeTried(indicators, today, res.time_range),
                                res.severity_filter), res.sources), Malicious_URL)

\* The places in the code table of the codes a value holds as '.code' or '/code/'.
CodesIn(value) ==
  IF ~Truthy(value) THEN {}
  ELSE {k \in 1..Len(country_mapping) :
          \/ Contains(<<".">> \o country_mapping[k][1], Lower(value))
          \/ Contains(<<"/">> \o country_mapping[k][1] \o <<"/">>, Lower(value))}

\* C25: each selected Malicious URL indicator adds 1 to the malicious_urls count of
\* at most one country, that of the first entry of the code table whose code occurs
\* in the lower-cased value as '.code' or '/code/'; an indicator with no code or no
\* value adds to no country, so that the malicious_urls counts sum to the number
\* of selected URL indicators that hold at least one code.
C25_UrlAttribution ==
  res.op = "geo" =>
    LET out == res.out
        First(value) ==
          LET codes == CodesIn(value)
          IN  IF codes = {} THEN <<>>
              ELSE <<country_mapping[CHOOSE k \in codes : \A h \in codes : k <= h][2]>>
    IN  \A first \in {[i \in 1..Len(urls) |-> First(urls[i].indicator_value)] :
                        urls \in {UrlRows}} :
          /\ \A p \in 1..Len(out.countries) :
               out.malicious_urls[p] =
                 Cardinality({i \in DOMAIN first : first[i] = <<out.countries[p]>>})
          /\ \A i \in DOMAIN first :
               first[i] # <<>> =>
                 \E p \in 1..Len(out.countries) : first[i] = <<out.countries[p]>>
          /\ Sum(out.malicious_urls) =
               Cardinality({i \in DOMAIN first : first[i] # <<>>})

\* A selected URL that holds two codes, the later of the table first in the text,
\* and a selected URL that adds to no country.
C25_Witness ==
  /\ res.op = "geo"
  /\ \E i \in 1..Len(UrlRows) : Cardinality(CodesIn(UrlRows[i].indicator_value)) = 2
  /\ \E i \in 1..Len(UrlRows) : CodesIn(UrlRows[i].indicator_value) = {}
  /\ Sum(res.out.malicious_urls) = 1

\* ------------------------------------------------------------ reload: outcomes
\* run_etl when no feed brings a record: it returns False before it comes to
\* store_data.
run_etl_nothing ==
  /\ txn = <<>>
  /\ \E stored \in BOOLEAN, tracking \in BOOLEAN, recorded \in BOOLEAN :
       LET ran == run_etl(indicators, data_updates, <<>>, <<>>, <<>>,
                          stored, tracking, recorded)
       IN  /\ indicators' = ran.indicators
           /\ data_updates' = ran.data_updates
           /\ etl_proc' = [op |-> "run_etl", returned |-> ran.returned, batch |-> <<>>,
                           clear_existing |-> TRUE, before |-> indicators,
                           inserted |-> 0]
  /\ UNCHANGED <<today, ticks, res, exports, user_queries, txn>>

\* The runs of the ETL process: a run that downloads nothing, and store_data in
\* either mode over the records the feeds bring, to its commit or to a failure.
EtlNext ==
  \/ run_etl_nothing
  \/ \E batch \in SeqUpTo(SearchFeedRecords, MaxRows) \ {<<>>}, clear_existing \in BOOLEAN :
       /\ clear_existing \/ Len(indicators) + Len(batch) <= MaxRows
       /\ store_data_begin(batch, clear_existing)
  \/ store_data_insert
  \/ store_data_commit
  \/ store_data_fail

EtlSpec == Init /\ [][EtlNext]_vars

\* C24: after a successful store_data in replace-all mode the indicators table
\* holds exactly the rows of the new batch, in its order, and no row of before; in
\* incremental mode (clear_existing = False) it holds every prior row and after
\* them every row of the batch, also those with an indicator_value that a row of
\* the table already has. Every row has an id of its own.
C24_StoreDataModes ==
  (etl_proc.op = "store_data" /\ etl_proc.returned) =>
    LET batch  == etl_proc.batch
        before == etl_proc.before
        kept   == IF etl_proc.clear_existing THEN 0 ELSE Len(before)
        SameRecord(row, record) == \A field \in DOMAIN record : row[field] = record[field]
    IN  /\ Len(indicators) = kept + Len(batch)
        /\ SubSeq(indicators, 1, kept) = SubSeq(before, 1, kept)
        /\ \A i \in 1..Len(batch) : SameRecord(indicators[kept + i], batch[i])
        /\ \A i, j \in 1..Len(indicators) : i # j => indicators[i].id # indicators[j].id

\* An incremental load, over a table of two different rows, of a record whose
\* indicator_value the first of them has.
C24_Witness ==
  /\ etl_proc.op = "store_data"
  /\ etl_proc.returned
  /\ ~etl_proc.clear_existing
  /\ Len(etl_proc.before) = 2
  /\ etl_proc.before[1].indicator_value # etl_proc.before[2].indicator_value
  /\ etl_proc.before[1].indicator_value = etl_proc.batch[1].indicator_value
  /\ Len(indicators) = 3

\* C28: when store_data fails after clearing the table or part-way through the
\* inserts it returns False and the indicators table readers see afterwards holds
\* exactly what it held before the call; and run_etl that downloads no record
\* from any feed returns False, begins no store_data and leaves the table as it was.
C28_FailureLeavesTable ==
  /\ (etl_proc.op = "store_data" /\ ~etl_proc.returned) => indicators = etl_proc.before
  /\ etl_proc.op = "run_etl" =>
       /\ ~etl_proc.returned
       /\ txn = <<>>
       /\ indicators = etl_proc.before

\* A replace-all load of two records over a table of rows that failed after the
\* DELETE and the first INSERT.
C28_Witness ==
  /\ etl_proc.op = "store_data"
  /\ ~etl_proc.returned
  /\ etl_proc.clear_existing
  /\ etl_proc.before # <<>>
  /\ Len(etl_proc.batch) = 2
  /\ etl_proc.inserted = 1
  /\ etl_proc.batch[1] # etl_proc.batch[2]
  /\ etl_proc.before[1] # etl_proc.batch[1]

\* ------------------------------------------------------ dashboard and reload
\* The queries of get_dashboard_stats in the order the handler issues them, each
\* named by the key of the answer it fills.
dashboard_queries ==
  <<"total_indicators", "mitre_count", "cve_count", "urlhaus_count", "recent_count",
    "severity_distribution", "source_distribution", "recent_trend", "top_techniques">>

\* get_dashboard_stats query by query on the application's connection, which opens
\* no transaction for a SELECT: each query answers from the table as committed
\* when it runs (got holds the answers so far), or raises while the file is locked
\* by the reload.
dashboard_query ==
  /\ res = NoCall \/ (res.op = "dashboard" /\ res.pc <= Len(dashboard_queries))
  /\ LET pc  == IF res = NoCall THEN 1 ELSE res.pc
         got == IF res = NoCall THEN <<>> ELSE res.got
     IN  \E out \in get_dashboard_stats(indicators, today),
            raised \in IF txn = <<>> THEN {""} ELSE {"", "OperationalError"} :
           res' = [op     |-> "dashboard",
                   pc     |-> IF raised = "" THEN pc + 1 ELSE Len(dashboard_queries) + 1,
                   raised |-> raised,
                   got    |-> IF raised = "" THEN Append(got, out[dashboard_queries[pc]])
                              ELSE got]
  /\ UNCHANGED <<indicators, today, ticks, exports, user_queries, data_updates, txn, etl_proc>>

\* The seed file is loaded, then the ETL process runs once, a replace-all reload of
\* the records the feeds bring, while the application answers /api/dashboard-stats.
DashboardReloadNext ==
  \/ \E data \in SeqUpTo(SearchFeedRecords, 1) :
       txn = <<>> /\ etl_proc = NoRun /\ load_sample_data(data)
  \/ \E batch \in SeqUpTo(SearchFeedRecords, MaxRows) \ {<<>>} :
       etl_proc = NoRun /\ store_data_begin(batch, TRUE)
  \/ store_data_insert
  \/ store_data_commit
  \/ store_data_fail
  \/ dashboard_query
  \/ res.op = "dashboard" /\ res.pc > Len(dashboard_queries) /\ Return

DashboardReloadSpec == Init /\ [][DashboardReloadNext]_vars

\* C26: in every get_dashboard_stats result mitre_count + cve_count + urlhaus_count
\* <= total_indicators and the counts of severity_distribution sum to
\* total_indicators, also when a reload commits between the queries of the call.
C26_CountsConsistent ==
  (res.op = "dashboard" /\ res.pc > Len(dashboard_queries) /\ res.raised = "") =>
    /\ res.got[2] + res.got[3] + res.got[4] <= res.got[1]
    /\ SumCounts(res.got[6]) = res.got[1]

\* ------------------------------------------------------ data updates: outcomes
\* The statuses of the manual_update rows the request a caller holds the answer of
\* has added, in the order of the table (the row of the ETL child, of type
\* etl_pipeline, is not among them).
ManualRows ==
  LET added == SubSeq(data_updates, res.before + 1, Len(data_updates))
      own   == SelectSeq(added, LAMBDA row : row.update_type = "manual_update")
  IN  [i \in 1..Len(own) |-> own[i].status]

\* C27: api_update_data records a manual_update row of status 'success', and
\* answers success: true, only when the run_etl it started returned True, the new
\* batch stored; when run_etl fails (nothing downloaded, or store_data returned
\* False) the status recorded is 'failed'.
C27_SuccessOnlyIfStored ==
  res.op = "update" =>
    /\ res.success => res.etl
    /\ \A i \in 1..Len(ManualRows) : ManualRows[i] = "success" => res.etl
    /\ (res.child = "exit0" /\ ~res.etl /\ res.finished) =>
         \E i \in 1..Len(ManualRows) : ManualRows[i] = "failed"

====
